---------------------------- MODULE Spec2Model ----------------------------
(***************************************************************************)
(* A model of grail's deterministic type-stub generator                    *)
(* (src/src/grail/stubs.py): the fingerprint cache, the discovery walk,    *)
(* the annotation resolver and the declaration renderer.                   *)
(*                                                                         *)
(* Python strings are TLA+ strings; a Python object that may be None is a  *)
(* sequence of length 0 (None) or 1.  A type annotation is a record        *)
(* [tag, ref, args]; a class, new-type or alias is referred to by its      *)
(* identity (an id of the table Types), so that two distinct objects may   *)
(* carry the same __name__ and the same module-qualified name, and so that *)
(* a class may refer to itself.                                            *)
(***************************************************************************)
EXTENDS Integers, Sequences, FiniteSets, TLC

(***************************************************************************)
(* Bounds.                                                                 *)
(***************************************************************************)
\* number of generate calls in one run of the process
MaxCalls == 3
\* the interpreter's recursion limit (sys.getrecursionlimit()), scaled down
RecursionLimit == 12

(***************************************************************************)
(* Strings: comparison (str.__lt__, by code point), sorting, joining,      *)
(* stripping.                                                              *)
(***************************************************************************)
\* the printable characters in code-point order (without the backquote)
Ascii == " !\"#$%&'()*+,-./0123456789:;<=>?@ABCDEFGHIJKLMNOPQRSTUVWXYZ[\\]^_abcdefghijklmnopqrstuvwxyz{|}~"

Ord(c) == CHOOSE i \in 1..Len(Ascii) : SubSeq(Ascii, i, i) = c

RECURSIVE StrLtFrom(_, _, _)
StrLtFrom(a, b, i) ==
    IF i > Len(b) THEN FALSE
    ELSE IF i > Len(a) THEN TRUE
    ELSE LET x == Ord(SubSeq(a, i, i))
             y == Ord(SubSeq(b, i, i))
         IN  IF x < y THEN TRUE
             ELSE IF x > y THEN FALSE
             ELSE StrLtFrom(a, b, i + 1)

StrLt(a, b) == StrLtFrom(a, b, 1)

\* insert x after the last element that is not greater than x (stable)
RECURSIVE InsertStr(_, _)
InsertStr(s, x) ==
    IF s = <<>> THEN <<x>>
    ELSE IF StrLt(x, Head(s)) THEN <<x>> \o s
    ELSE <<Head(s)>> \o InsertStr(Tail(s), x)

\* sorted(seq) for a sequence of strings
RECURSIVE SortStrs(_)
SortStrs(s) ==
    IF s = <<>> THEN <<>>
    ELSE InsertStr(SortStrs(SubSeq(s, 1, Len(s) - 1)), s[Len(s)])

\* sorted(set) for a set of strings
RECURSIVE SortStrSet(_)
SortStrSet(S) ==
    IF S = {} THEN <<>>
    ELSE LET m == CHOOSE x \in S : \A y \in S : ~StrLt(y, x)
         IN  <<m>> \o SortStrSet(S \ {m})

\* sep.join(parts)
RECURSIVE Join(_, _)
Join(sep, parts) ==
    IF parts = <<>> THEN ""
    ELSE IF Len(parts) = 1 THEN parts[1]
    ELSE parts[1] \o sep \o Join(sep, Tail(parts))

IsSpace(c) == c \in {" ", "\n", "\t"}

\* str.lstrip() and str.rstrip()
RECURSIVE LStrip(_)
LStrip(s) ==
    IF Len(s) > 0 /\ IsSpace(SubSeq(s, 1, 1)) THEN LStrip(SubSeq(s, 2, Len(s))) ELSE s

RECURSIVE RStrip(_)
RStrip(s) ==
    IF Len(s) > 0 /\ IsSpace(SubSeq(s, Len(s), Len(s)))
        THEN RStrip(SubSeq(s, 1, Len(s) - 1)) ELSE s

\* str.strip()
Strip(s) == LStrip(RStrip(s))

\* needle in text
Contains(text, needle) ==
    \E i \in 1..(Len(text) - Len(needle) + 1) :
        SubSeq(text, i, i + Len(needle) - 1) = needle

Range(s) == {s[i] : i \in 1..Len(s)}

(***************************************************************************)
(* Annotations.                                                            *)
(***************************************************************************)
Ann(tag, ref, args) == [tag |-> tag, ref |-> ref, args |-> args]

Empty == Ann("empty", "", <<>>)          \* inspect.Signature.empty
AnyT == Ann("any", "", <<>>)             \* typing.Any
NoneT == Ann("none", "", <<>>)           \* NoneType
Ellip == Ann("ellipsis", "", <<>>)       \* Ellipsis
Named(id) == Ann("named", id, <<>>)      \* a class, new-type or alias object
Gen(origin, args) == Ann("generic", origin, args)  \* get_origin is not None
PList(args) == Ann("plist", "", args)    \* the parameter list of a Callable
PSpec(name) == Ann("pspec", name, <<>>)  \* a ParamSpec object
StrAnn(text) == Ann("str", text, <<>>)   \* an unevaluated (string) annotation

(***************************************************************************)
(* The objects of the process: classes, new-types and aliases (Types) and  *)
(* tool functions (Tools).  kind is what the resolver's predicates see:    *)
(* "newtype" (_is_new_type), "alias" (_is_type_alias), "model" (a plain    *)
(* class under BaseModel), "dataclass" (a plain class that is a            *)
(* dataclass), "class" (any other plain class).                            *)
(***************************************************************************)
Field(name, ann) == [name |-> name, ann |-> ann]

TypeDef(kind, name, qual, body, fields) ==
    [kind |-> kind, name |-> name, qual |-> qual, body |-> body, fields |-> fields]

Cls(name, qual) == TypeDef("class", name, qual, Empty, <<>>)
Model(name, qual, fields) == TypeDef("model", name, qual, Empty, fields)
DataCls(name, qual, fields) == TypeDef("dataclass", name, qual, Empty, fields)
NewT(name, qual, supertype) == TypeDef("newtype", name, qual, supertype, <<>>)
Alias(name, qual, value) == TypeDef("alias", name, qual, value, <<>>)

IntT == Named("int")
StrT == Named("str")
Optional(a) == Gen("Union", <<a, NoneT>>)

Types ==
    ("int" :> Cls("int", "builtins.int"))
 @@ ("str" :> Cls("str", "builtins.str"))
 @@ ("deque" :> Cls("deque", "collections.deque"))
 @@ ("UserId" :> NewT("UserId", "m.UserId", IntT))
 @@ ("Payload" :> Alias("Payload", "m.Payload",
        Gen("dict", <<StrT, Gen("list", <<Named("UserId")>>)>>)))
 @@ ("Profile" :> DataCls("Profile", "m.Profile",
        <<Field("user_id", Named("UserId")), Field("tags", Gen("set", <<StrT>>))>>))
 @@ ("Envelope" :> DataCls("Envelope", "m.Envelope",
        <<Field("profile", Named("Profile")), Field("payload", Named("Payload"))>>))
 @@ ("Item" :> Model("Item", "m.Item", <<Field("id", Named("UserId"))>>))
 @@ ("InModel" :> Model("InModel", "m.InModel",
        <<Field("count", IntT), Field("name", StrT)>>))
 @@ ("OutModel" :> Model("OutModel", "m.OutModel", <<Field("total", IntT)>>))
    \* two classes made by the same factory: one name, one qualified name
 @@ ("M1" :> Model("M", "m.M", <<Field("a", IntT)>>))
 @@ ("M2" :> Model("M", "m.M", <<Field("b", StrT)>>))
    \* a model that refers to itself
 @@ ("Node" :> Model("Node", "m.Node",
        <<Field("value", IntT), Field("next", Optional(Named("Node")))>>))
 @@ ("CbIn" :> Model("CbIn", "m.CbIn",
        <<Field("cb", Gen("Callable", <<PList(<<Named("UserId"), AnyT>>), IntT>>))>>))
 @@ ("PsIn" :> Model("PsIn", "m.PsIn",
        <<Field("cb", Gen("Callable", <<PSpec("P"), IntT>>))>>))
 @@ ("Loose" :> Model("Loose", "m.Loose",
        <<Field("l", Gen("list", <<>>)),
          Field("t", Gen("tuple", <<>>)),
          Field("d", Gen("dict", <<>>)),
          Field("q", Gen("deque", <<IntT>>)),
          Field("u", Gen("Union", <<StrT, IntT, NoneT, StrT>>)),
          Field("v", Gen("tuple", <<IntT, Ellip>>))>>))
 \* two records named Config, of the modules a and b
 @@ ("CfgA" :> DataCls("Config", "a.Config", <<Field("host", StrT)>>))
 @@ ("CfgB" :> DataCls("Config", "b.Config", <<Field("path", StrT)>>))
 \* the models of the contexts that start and restore snapshots
 @@ ("SnapshotInput" :> Model("SnapshotInput", "t.SnapshotInput",
        <<Field("a", IntT), Field("b", IntT)>>))
 @@ ("SnapshotOutput" :> Model("SnapshotOutput", "t.SnapshotOutput",
        <<Field("total", IntT)>>))
 \* a record whose callable takes a new-type, and a model that names both
 @@ ("Handler" :> DataCls("Handler", "m.Handler",
        <<Field("on", Gen("Callable", <<PList(<<Named("UserId")>>), IntT>>))>>))
 @@ ("HandIn" :> Model("HandIn", "m.HandIn",
        <<Field("h", Named("Handler")), Field("u", Named("UserId"))>>))
 \* a record that holds the output schema of its request
 @@ ("Wrap" :> DataCls("Wrap", "m.Wrap", <<Field("inner", Named("OutModel"))>>))
 @@ ("WrapIn" :> Model("WrapIn", "m.WrapIn",
        <<Field("w", Named("Wrap")), Field("n", IntT)>>))
 @@ ("Rich" :> Model("Rich", "m.Rich",
        <<Field("env", Optional(Named("Envelope"))),
          Field("item", Named("Item")),
          Field("xs", Gen("list", <<Named("Payload")>>))>>))

TypeIds == DOMAIN Types

Param(name, kind, ann, default) ==
    [name |-> name, kind |-> kind, ann |-> ann, default |-> default]

\* a parameter without default, of the usual kind
P(name, ann) == Param(name, "POSITIONAL_OR_KEYWORD", ann, <<>>)

Tool(name, params, ret) == [name |-> name, params |-> params, ret |-> ret]

Tools ==
    ("add1" :> Tool("add", <<P("a", IntT), P("b", IntT)>>, IntT))
    \* another function object, same name and signature
 @@ ("add2" :> Tool("add", <<P("a", IntT), P("b", IntT)>>, IntT))
 @@ ("add3" :> Tool("add", <<P("a", IntT), P("b", IntT), P("c", IntT)>>, IntT))
 @@ ("addR" :> Tool("add", <<P("a", IntT), P("y", IntT)>>, IntT))
 @@ ("addK" :> Tool("add", <<P("a", IntT), Param("b", "KEYWORD_ONLY", IntT, <<>>)>>, IntT))
 @@ ("addA" :> Tool("add", <<P("a", IntT), P("b", StrT)>>, IntT))
 @@ ("addT" :> Tool("add", <<P("a", IntT), P("b", IntT)>>, StrT))
    \* b annotated with one and with the other of the two classes m.M
 @@ ("addM1" :> Tool("add", <<P("a", IntT), P("b", Named("M1"))>>, IntT))
 @@ ("addM2" :> Tool("add", <<P("a", IntT), P("b", Named("M2"))>>, IntT))
 @@ ("f" :> Tool("f", <<P("x", Empty),
                         Param("args", "VAR_POSITIONAL", Empty, <<>>),
                         Param("kw", "VAR_KEYWORD", Empty, <<>>)>>, Empty))
 @@ ("norm" :> Tool("norm", <<P("items", Gen("list", <<Named("Payload")>>))>>,
        Gen("tuple", <<Optional(Named("Envelope")), Named("Payload")>>)))
 @@ ("load" :> Tool("load", <<P("cfg", Named("CfgA"))>>, NoneT))
 @@ ("save" :> Tool("save", <<P("cfg", Named("CfgB"))>>, NoneT))
 \* a tool over the two schemas of its request
 @@ ("total" :> Tool("total", <<P("x", Named("InModel"))>>, Named("OutModel")))
 \* a tool over the one schema of its request
 @@ ("echo" :> Tool("echo", <<P("x", Named("InModel"))>>, Named("InModel")))
 @@ ("apply" :> Tool("apply",
        <<P("fn", Gen("Callable", <<Ellip, IntT>>)),
          Param("n", "POSITIONAL_OR_KEYWORD", StrAnn("int | None"), <<"3">>)>>, NoneT))

ToolIds == DOMAIN Tools

Request(input, output, tools) == [input |-> input, output |-> output, tools |-> tools]

\* the calls of generate that the process makes
Requests ==
    { Request("InModel", <<"OutModel">>, <<t>>) :
          t \in {"add1", "add2", "add3", "addR", "addK", "addA", "addT",
                 "addM1", "addM2"} }
    \cup { Request(m, <<>>, <<>>) : m \in {"InModel", "M1", "M2", "Node", "CbIn", "PsIn"} }
    \cup { Request("Loose", <<>>, <<"f">>),
           Request("InModel", <<>>, <<"apply">>),
           Request("InModel", <<>>, <<"load", "save">>),
           Request("InModel", <<>>, <<"save", "load">>),
           Request("Rich", <<"OutModel">>, <<"norm", "add1">>),
           Request("Rich", <<"OutModel">>, <<"add1", "norm">>),
           Request("HandIn", <<>>, <<>>),
           Request("WrapIn", <<"OutModel">>, <<>>),
           Request("InModel", <<"OutModel">>, <<"total">>),
           Request("InModel", <<"InModel">>, <<"echo">>) }

(***************************************************************************)
(* The cache key.                                                          *)
(***************************************************************************)
\* _model_identity of an optional model: None, or module.qualname
ModelIdentity(model) ==
    IF model = <<>> THEN <<>> ELSE <<Types[model[1]].qual>>

\* repr() of an element of a Callable's parameter list
PyRepr(a) ==
    IF a.tag = "any" THEN "typing.Any"
    ELSE IF a.tag = "none" THEN "<class 'NoneType'>"
    ELSE IF a.tag = "named" /\ Types[a.ref].kind = "newtype" THEN Types[a.ref].qual
    ELSE IF a.tag = "named" /\ Types[a.ref].kind = "alias" THEN Types[a.ref].name
    ELSE IF a.tag = "named" THEN "<class '" \o Types[a.ref].qual \o "'>"
    ELSE "<object>"

\* the text of get_origin(a) under _stable_annotation_repr
OriginRepr(origin) ==
    IF origin \in {"list", "set", "frozenset", "dict", "tuple"} THEN "builtins." \o origin
    ELSE IF origin = "Union" THEN "typing.Union"
    ELSE IF origin = "Callable" THEN "collections.abc.Callable"
    ELSE Types[origin].qual

RECURSIVE StableAnnotationRepr(_)
StableAnnotationRepr(a) ==
    IF a.tag = "empty" THEN "<empty>"
    ELSE IF a.tag = "none" THEN "None"
    ELSE IF a.tag = "any" THEN "Any"
    ELSE IF a.tag = "generic" THEN
        OriginRepr(a.ref) \o "["
            \o Join(", ", [i \in 1..Len(a.args) |-> StableAnnotationRepr(a.args[i])])
            \o "]"
    ELSE IF a.tag = "named" THEN
        \* a class or a new-type has __module__ and __qualname__, an alias __name__
        IF Types[a.ref].kind = "alias" THEN Types[a.ref].name ELSE Types[a.ref].qual
    ELSE IF a.tag = "pspec" THEN a.ref
    ELSE IF a.tag = "ellipsis" THEN "Ellipsis"
    ELSE IF a.tag = "str" THEN "'" \o a.ref \o "'"
    ELSE "[" \o Join(", ", [i \in 1..Len(a.args) |-> PyRepr(a.args[i])]) \o "]"

ParamFingerprint(p) ==
    Join("|", <<p.name, p.kind, StableAnnotationRepr(p.ann),
                IF p.default = <<>> THEN "<empty>" ELSE p.default[1]>>)

ToolFingerprint(tool) ==
    LET t == Tools[tool]
        parameters == [i \in 1..Len(t.params) |-> ParamFingerprint(t.params[i])]
    IN  <<t.name, Join("|", <<Join(",", parameters), StableAnnotationRepr(t.ret)>>)>>

CacheKey(req) ==
    << (IF ModelIdentity(<<req.input>>) = <<>> THEN "" ELSE ModelIdentity(<<req.input>>)[1]),
       ModelIdentity(req.output),
       [i \in 1..Len(req.tools) |-> ToolFingerprint(req.tools[i])] >>

(***************************************************************************)
(* The discovery state of one StubGenerator and the discovery walk.        *)
(* A registry maps a __name__ to the object last registered under it.      *)
(* A walk returns the state it leaves and the exception it raised ("" for  *)
(* none).  depth is the depth of the call stack: a call deeper than        *)
(* RecursionLimit raises RecursionError.  The frames of                    *)
(* _annotation_to_stub, which recurses on the annotation's own arguments   *)
(* only, are not counted.  An operator named ...Rest or ...After is the    *)
(* rest of the function after the call whose result it receives.           *)
(***************************************************************************)
EmptyReg == [n \in {} |-> ""]

Put(reg, name, id) == [n \in (DOMAIN reg) \cup {name} |-> IF n = name THEN id ELSE reg[n]]

\* StubGenerator.__init__ and StubGenerator._reset
FreshGen ==
    [uses_any |-> FALSE, uses_callable |-> FALSE,
     new_types |-> EmptyReg, type_aliases |-> EmptyReg,
     base_models |-> EmptyReg, dataclasses |-> EmptyReg]

\* what _reset would be if it kept the discovery state of the instance
ResetNothing(g) == g

Reset(g) == FreshGen

Res(g, text, err) == [g |-> g, text |-> text, err |-> err]

Texts(g, texts, err) == [g |-> g, texts |-> texts, err |-> err]

\* the object is registered under its __name__ in the registry of its kind
Register(g, id) ==
    CASE Types[id].kind = "newtype" -> [g EXCEPT !.new_types = Put(@, Types[id].name, id)]
      [] Types[id].kind = "alias" -> [g EXCEPT !.type_aliases = Put(@, Types[id].name, id)]
      [] Types[id].kind = "model" -> [g EXCEPT !.base_models = Put(@, Types[id].name, id)]
      [] Types[id].kind = "dataclass" -> [g EXCEPT !.dataclasses = Put(@, Types[id].name, id)]
      [] OTHER -> g

FieldAnns(id) == [i \in 1..Len(Types[id].fields) |-> Types[id].fields[i].ann]

FieldNames(id) == [i \in 1..Len(Types[id].fields) |-> Types[id].fields[i].name]

\* get_args(a) without the Ellipsis
ArgsNoEllipsis(a) == SelectSeq(a.args, LAMBDA x : x.tag # "ellipsis")

RECURSIVE CollectAnnotation(_, _, _)
RECURSIVE CollectEach(_, _, _)
RECURSIVE CollectModelAnnotations(_, _, _)

CollectRest(h, rest, depth) ==
    IF h.err # "" THEN h ELSE CollectEach(h.g, rest, depth)

\* a loop of _collect_annotation calls at the given depth
CollectEach(g, anns, depth) ==
    IF anns = <<>> THEN Res(g, "", "")
    ELSE CollectRest(CollectAnnotation(g, Head(anns), depth), Tail(anns), depth)

CollectAnnotation(g, a, depth) ==
    IF depth > RecursionLimit THEN Res(g, "", "RecursionError")
    ELSE IF a.tag = "empty" THEN Res(g, "", "")
    ELSE IF a.tag = "any" THEN Res([g EXCEPT !.uses_any = TRUE], "", "")
    ELSE IF a.tag = "none" THEN Res(g, "", "")
    ELSE IF a.tag = "named" THEN
        IF Types[a.ref].kind \in {"newtype", "alias"}
            THEN CollectEach(Register(g, a.ref), <<Types[a.ref].body>>, depth + 1)
        ELSE IF Types[a.ref].kind = "model"
            THEN CollectModelAnnotations(Register(g, a.ref), a.ref, depth + 1)
        ELSE IF Types[a.ref].kind = "dataclass"
            THEN CollectEach(Register(g, a.ref), FieldAnns(a.ref), depth + 1)
        ELSE Res(g, "", "")
    ELSE IF a.tag = "generic" THEN CollectEach(g, ArgsNoEllipsis(a), depth + 1)
    ELSE Res(g, "", "")

CollectModelAnnotations(g, model, depth) ==
    IF depth > RecursionLimit THEN Res(g, "", "RecursionError")
    ELSE CollectEach(g, FieldAnns(model), depth + 1)

ToolAnns(tool) ==
    [i \in 1..Len(Tools[tool].params) |-> Tools[tool].params[i].ann] \o <<Tools[tool].ret>>

CollectToolAnnotations(g, tool, depth) == CollectEach(g, ToolAnns(tool), depth + 1)

RECURSIVE CollectTools(_, _, _)

CollectToolsRest(h, rest, depth) ==
    IF h.err # "" THEN h ELSE CollectTools(h.g, rest, depth)

\* the loop over the tools of _generate_uncached
CollectTools(g, tools, depth) ==
    IF tools = <<>> THEN Res(g, "", "")
    ELSE CollectToolsRest(CollectToolAnnotations(g, Head(tools), depth), Tail(tools), depth)

DiscoverOutput(c, req, depth) ==
    IF c.err # "" \/ req.output = <<>> THEN c
    ELSE CollectModelAnnotations(c.g, req.output[1], depth)

DiscoverTools(c, req, depth) ==
    IF c.err # "" THEN c ELSE CollectTools(c.g, req.tools, depth)

\* the walk of _generate_uncached: the schemas' fields, then every tool
Discover(g, req, depth) ==
    DiscoverTools(DiscoverOutput(CollectModelAnnotations(g, req.input, depth), req, depth),
                  req, depth)

(***************************************************************************)
(* The annotation resolver.                                                *)
(***************************************************************************)
\* s.replace(old, "")
RECURSIVE Remove(_, _)
Remove(s, old) ==
    IF Len(s) < Len(old) THEN s
    ELSE IF SubSeq(s, 1, Len(old)) = old THEN Remove(SubSeq(s, Len(old) + 1, Len(s)), old)
    ELSE SubSeq(s, 1, 1) \o Remove(SubSeq(s, 2, Len(s)), old)

\* str(a) of an annotation without origin that is no class
PyStr(a) ==
    IF a.tag = "str" THEN a.ref
    ELSE IF a.tag = "pspec" THEN "~" \o a.ref
    ELSE IF a.tag = "ellipsis" THEN "Ellipsis"
    ELSE "[" \o Join(", ", [i \in 1..Len(a.args) |-> PyRepr(a.args[i])]) \o "]"

\* the items of a sorted list, without the duplicates
RECURSIVE Dedupe(_)
Dedupe(s) ==
    IF s = <<>> THEN <<>>
    ELSE IF s[Len(s)] \in Range(SubSeq(s, 1, Len(s) - 1)) THEN Dedupe(SubSeq(s, 1, Len(s) - 1))
    ELSE Append(Dedupe(SubSeq(s, 1, Len(s) - 1)), s[Len(s)])

UnionJoin(has_none, non_none) ==
    IF has_none
        THEN (IF non_none # <<>> THEN Join(" | ", Append(non_none, "None")) ELSE "None")
    ELSE Join(" | ", non_none)

\* the member texts de-duplicated but left in the order of the members
UnionTextUnsorted(rendered) ==
    UnionJoin("None" \in Range(rendered),
              Dedupe(SelectSeq(rendered, LAMBDA x : x # "None")))

UnionText(rendered) ==
    UnionJoin("None" \in Range(rendered),
              Dedupe(SortStrs(SelectSeq(rendered, LAMBDA x : x # "None"))))

RECURSIVE AnnotationToStub(_, _)
RECURSIVE StubEach(_, _)

Prepend(text, r) == Texts(r.g, <<text>> \o r.texts, r.err)

StubRest(h, rest) ==
    IF h.err # "" THEN Texts(h.g, <<>>, h.err) ELSE Prepend(h.text, StubEach(h.g, rest))

\* [self._annotation_to_stub(item) for item in anns]
StubEach(g, anns) ==
    IF anns = <<>> THEN Texts(g, <<>>, "")
    ELSE StubRest(AnnotationToStub(g, Head(anns)), Tail(anns))

UnionAfter(r) ==
    IF r.err # "" THEN Res(r.g, "", r.err) ELSE Res(r.g, UnionText(r.texts), "")

RenderUnion(g, union_args) == UnionAfter(StubEach(g, union_args))

\* return f"Callable[{params_text}, {return_text}]"
CallableText(params_text, r) ==
    IF r.err # "" THEN r
    ELSE Res(r.g, "Callable[" \o params_text \o ", " \o r.text \o "]", "")

CallableAfterParams(ps, ret_spec) ==
    IF ps.err # "" THEN Res(ps.g, "", ps.err)
    ELSE CallableText("[" \o Join(", ", ps.texts) \o "]", AnnotationToStub(ps.g, ret_spec))

\* the Callable branch from call_args = get_args(annotation); g has _uses_callable set
CallableToStub(g, call_args) ==
    IF Len(call_args) # 2 THEN Res([g EXCEPT !.uses_any = TRUE], "Callable[..., Any]", "")
    ELSE IF call_args[1].tag = "ellipsis"
        THEN CallableText("...", AnnotationToStub(g, call_args[2]))
    ELSE IF call_args[1].tag # "plist"
        \* for item in param_spec: the object is not iterable
        THEN Res(g, "", "TypeError")
    ELSE CallableAfterParams(StubEach(g, call_args[1].args), call_args[2])

TupleVariadic(first) ==
    IF first.err # "" THEN first ELSE Res(first.g, "tuple[" \o first.text \o ", ...]", "")

OtherOrigin(origin, args) ==
    Res(origin.g, IF args # <<>> THEN origin.text \o "[" \o Join(", ", args) \o "]"
                  ELSE origin.text, origin.err)

\* the branches of a parameterized generic that is no union, the arguments
\* other than Ellipsis rendered in r
GenericAfterArgs(r, a) ==
    IF r.err # "" THEN Res(r.g, "", r.err)
    ELSE IF a.ref \in {"list", "set", "frozenset"} THEN
        Res([r.g EXCEPT !.uses_any = @ \/ r.texts = <<>>],
            a.ref \o "[" \o (IF r.texts # <<>> THEN r.texts[1] ELSE "Any") \o "]", "")
    ELSE IF a.ref = "dict" THEN
        Res([r.g EXCEPT !.uses_any = @ \/ Len(r.texts) < 2],
            "dict[" \o (IF r.texts # <<>> THEN r.texts[1] ELSE "Any") \o ", "
                    \o (IF Len(r.texts) > 1 THEN r.texts[2] ELSE "Any") \o "]", "")
    ELSE IF a.ref = "tuple" THEN
        IF Len(a.args) = 2 /\ a.args[2].tag = "ellipsis"
            THEN TupleVariadic(AnnotationToStub(r.g, a.args[1]))
        ELSE Res(r.g, IF r.texts # <<>> THEN "tuple[" \o Join(", ", r.texts) \o "]"
                      ELSE "tuple[Any, ...]", "")
    ELSE IF a.ref = "Callable"
        THEN CallableToStub([r.g EXCEPT !.uses_callable = TRUE], a.args)
    ELSE OtherOrigin(AnnotationToStub(r.g, Named(a.ref)), r.texts)

\* get_origin is None and the annotation is no class: its str() is the text
TextToStub(g, text) == Res([g EXCEPT !.uses_any = @ \/ text = "Any"], text, "")

AnnotationToStub(g, a) ==
    IF a.tag \in {"empty", "any"} THEN Res([g EXCEPT !.uses_any = TRUE], "Any", "")
    ELSE IF a.tag = "none" THEN Res(g, "None", "")
    ELSE IF a.tag = "named" THEN Res(Register(g, a.ref), Types[a.ref].name, "")
    ELSE IF a.tag # "generic" THEN TextToStub(g, Remove(PyStr(a), "typing."))
    ELSE IF a.ref = "Union" THEN RenderUnion(g, a.args)
    ELSE GenericAfterArgs(StubEach(g, ArgsNoEllipsis(a)), a)

(***************************************************************************)
(* The declaration renderer.                                               *)
(***************************************************************************)
\* the lines "    name: annotation" of a record block
\* the field lines in the reverse of the order of the fields
FieldLinesReversed(names, texts) ==
    [i \in 1..Len(names) |->
        "    " \o names[Len(names) + 1 - i] \o ": " \o texts[Len(names) + 1 - i]]

FieldLines(names, texts) == [i \in 1..Len(names) |-> "    " \o names[i] \o ": " \o texts[i]]

\* a block: its first line, then its field lines, or "    pass"
Block(first, lines) == Join("\n", <<first>> \o (IF lines = <<>> THEN <<"    pass">> ELSE lines))

BlockAfterFields(r, first, names) ==
    IF r.err # "" THEN Res(r.g, "", r.err)
    ELSE Res(r.g, Block(first, FieldLines(names, r.texts)), "")

ModelStub(g, model) ==
    BlockAfterFields(StubEach(g, FieldAnns(model)),
                     "class " \o Types[model].name \o "(TypedDict):", FieldNames(model))

DataclassStub(g, item) ==
    BlockAfterFields(StubEach(g, FieldAnns(item)),
                     "class " \o Types[item].name \o ":", FieldNames(item))

\* name: annotation
ParamText(name, s) == Res(s.g, name \o ": " \o s.text, s.err)

\* one parameter of a tool: *name and **name carry no annotation
ToolParam(g, p) ==
    IF p.kind = "VAR_POSITIONAL" THEN Res(g, "*" \o p.name, "")
    ELSE IF p.kind = "VAR_KEYWORD" THEN Res(g, "**" \o p.name, "")
    ELSE ParamText(p.name, AnnotationToStub(g, p.ann))

RECURSIVE ToolParams(_, _)

ToolParamsRest(h, rest) ==
    IF h.err # "" THEN Texts(h.g, <<>>, h.err) ELSE Prepend(h.text, ToolParams(h.g, rest))

ToolParams(g, params) ==
    IF params = <<>> THEN Texts(g, <<>>, "")
    ELSE ToolParamsRest(ToolParam(g, Head(params)), Tail(params))

ToolLine(t, params, ret) ==
    IF ret.err # "" THEN ret
    ELSE Res(ret.g, "def " \o t.name \o "(" \o Join(", ", params) \o ") -> "
                        \o ret.text \o ": ...", "")

ToolAfterParams(t, ps) ==
    IF ps.err # "" THEN Res(ps.g, "", ps.err)
    ELSE ToolLine(t, ps.texts, AnnotationToStub(ps.g, t.ret))

ToolStub(g, tool) == ToolAfterParams(Tools[tool], ToolParams(g, Tools[tool].params))

\* sorted(tools, key=lambda item: item.__name__): stable
RECURSIVE InsertTool(_, _)
InsertTool(s, x) ==
    IF s = <<>> THEN <<x>>
    ELSE IF StrLt(Tools[x].name, Tools[Head(s)].name) THEN <<x>> \o s
    ELSE <<Head(s)>> \o InsertTool(Tail(s), x)

RECURSIVE SortTools(_)
SortTools(tools) ==
    IF tools = <<>> THEN <<>>
    ELSE InsertTool(SortTools(SubSeq(tools, 1, Len(tools) - 1)), tools[Len(tools)])

(***************************************************************************)
(* _render_custom_definitions.  The state of the emission is the           *)
(* generator, the list rendered, the names emitted (kept in the order of   *)
(* their blocks in rendered) and the names to skip.                        *)
(***************************************************************************)
RECURSIVE EmitForAnnotation(_, _, _)
RECURSIVE EmitNamed(_, _, _)
RECURSIVE EmitEach(_, _, _)

Raise(e, g, err) == [e EXCEPT !.g = g, !.err = err]

\* rendered.append(block); emitted.add(name)
EmitBlock(e, name, s) ==
    IF s.err # "" THEN Raise(e, s.g, s.err)
    ELSE [e EXCEPT !.g = s.g, !.rendered = Append(@, s.text), !.emitted = Append(@, name)]

NewTypeLine(name, s) ==
    Res(s.g, name \o " = NewType(\"" \o name \o "\", " \o s.text \o ")", s.err)

AliasLine(name, s) == Res(s.g, name \o " = " \o s.text, s.err)

\* the block of the object found in the registry under name
DefinitionStub(g, name, id) ==
    CASE Types[id].kind = "newtype" -> NewTypeLine(name, AnnotationToStub(g, Types[id].body))
      [] Types[id].kind = "alias" -> AliasLine(name, AnnotationToStub(g, Types[id].body))
      [] Types[id].kind = "model" -> ModelStub(g, id)
      [] OTHER -> DataclassStub(g, id)

\* emit_named after the annotations of the body of name were emitted
EmitAfterDeps(d, name, id) ==
    IF d.err # "" THEN d ELSE EmitBlock(d, name, DefinitionStub(d.g, name, id))

EmitRest(h, rest, depth) ==
    IF h.err # "" THEN h ELSE EmitEach(h, rest, depth)

\* a loop of emit_for_annotation calls at the given depth
EmitEach(e, anns, depth) ==
    IF anns = <<>> THEN e
    ELSE EmitRest(EmitForAnnotation(e, Head(anns), depth), Tail(anns), depth)

EmitForAnnotation(e, a, depth) ==
    IF depth > RecursionLimit THEN Raise(e, e.g, "RecursionError")
    ELSE IF a.tag = "named" /\ Types[a.ref].kind # "class"
        THEN EmitNamed(e, Types[a.ref].name, depth + 1)
    ELSE IF a.tag = "generic" THEN EmitEach(e, ArgsNoEllipsis(a), depth + 1)
    ELSE e

EmitNamed(e, name, depth) ==
    IF depth > RecursionLimit THEN Raise(e, e.g, "RecursionError")
    ELSE IF name \in Range(e.emitted) THEN e
    ELSE IF name \in DOMAIN e.g.new_types THEN
        EmitAfterDeps(EmitEach(e, <<Types[e.g.new_types[name]].body>>, depth + 1),
                      name, e.g.new_types[name])
    ELSE IF name \in DOMAIN e.g.type_aliases THEN
        EmitAfterDeps(EmitEach(e, <<Types[e.g.type_aliases[name]].body>>, depth + 1),
                      name, e.g.type_aliases[name])
    ELSE IF name \in DOMAIN e.g.base_models THEN
        IF name \in e.skip THEN e
        ELSE EmitAfterDeps(EmitEach(e, FieldAnns(e.g.base_models[name]), depth + 1),
                           name, e.g.base_models[name])
    ELSE IF name \in DOMAIN e.g.dataclasses THEN
        EmitAfterDeps(EmitEach(e, FieldAnns(e.g.dataclasses[name]), depth + 1),
                      name, e.g.dataclasses[name])
    ELSE e

RECURSIVE EmitCandidates(_, _, _)

EmitCandidatesRest(h, rest, depth) ==
    IF h.err # "" THEN h ELSE EmitCandidates(h, rest, depth)

\* for candidate in sorted(candidates): emit_named(candidate)
EmitCandidates(e, candidates, depth) ==
    IF candidates = <<>> THEN e
    ELSE EmitCandidatesRest(EmitNamed(e, Head(candidates), depth), Tail(candidates), depth)

\* the names of the four registries
Candidates(g) ==
    (DOMAIN g.new_types) \cup (DOMAIN g.type_aliases)
        \cup (DOMAIN g.base_models) \cup (DOMAIN g.dataclasses)

\* the candidates visited in the reverse of the sorted order
ReverseSortedCandidates(candidates) ==
    [n \in 1..Cardinality(candidates) |->
        SortStrSet(candidates)[Cardinality(candidates) + 1 - n]]

\* the order in which the candidates are visited
SortedCandidates(candidates) == SortStrSet(candidates)

RenderCustomDefinitions(g, skip_model_names, depth) ==
    EmitCandidates([g |-> g, rendered |-> <<>>, emitted |-> <<>>,
                    skip |-> skip_model_names, err |-> ""],
                   SortedCandidates(Candidates(g)), depth + 1)

(***************************************************************************)
(* _generate_uncached: the state the generator is left in, the text, the   *)
(* exception raised, and two values of the run kept for inspection: the    *)
(* import names of the header and the names of the auxiliary blocks.       *)
(***************************************************************************)
Rendered(g, text, err, imports, aux) ==
    [g |-> g, text |-> text, err |-> err, imports |-> imports, aux |-> aux]

ImportNames(g) ==
    (IF g.uses_any THEN <<"Any">> ELSE <<>>)
    \o <<"TypedDict">>
    \o (IF g.uses_callable THEN <<"Callable">> ELSE <<>>)
    \o (IF DOMAIN g.new_types # {} THEN <<"NewType">> ELSE <<>>)

SkipModelNames(req) ==
    {Types[req.input].name, IF req.output # <<>> THEN Types[req.output[1]].name ELSE ""}

RECURSIVE ToolStubs(_, _)

\* output.write(text) after the call that made s
Write(text, s) == Res(s.g, text \o s.text, s.err)

ToolStubsRest(h, rest) ==
    IF h.err # "" THEN h ELSE Write("\n\n" \o h.text, ToolStubs(h.g, rest))

\* the tool stubs, each written after a blank line
ToolStubs(g, tools) ==
    IF tools = <<>> THEN Res(g, "", "")
    ELSE ToolStubsRest(ToolStub(g, Head(tools)), Tail(tools))

\* the header line and the auxiliary blocks
WriteHeader(import_names, custom) ==
    Res(custom.g,
        "from typing import " \o Join(", ", import_names) \o "\n\n\n"
            \o (IF custom.rendered # <<>>
                    THEN Join("\n\n", custom.rendered) \o "\n\n" ELSE ""),
        custom.err)

WriteInput(out, req) ==
    IF out.err # "" THEN out ELSE Write(out.text, ModelStub(out.g, req.input))

\* the output block written straight after the input block
WriteOutputNoBlank(out, req) ==
    IF out.err # "" \/ req.output = <<>> THEN out
    ELSE Write(out.text \o "\n", ModelStub(out.g, req.output[1]))

WriteOutput(out, req) ==
    IF out.err # "" \/ req.output = <<>> THEN out
    ELSE Write(out.text \o "\n\n", ModelStub(out.g, req.output[1]))

WriteTools(out, tools) ==
    IF out.err # "" THEN out ELSE Write(out.text, ToolStubs(out.g, tools))

\* return output.getvalue().strip() + "\n"
Finish(out, import_names, custom) ==
    IF out.err # "" THEN Rendered(out.g, "", out.err, import_names, <<>>)
    ELSE Rendered(out.g, Strip(out.text) \o "\n", "", import_names, custom.emitted)

RenderAfterCustom(import_names, custom, req) ==
    Finish(WriteTools(WriteOutput(WriteInput(WriteHeader(import_names, custom), req), req),
                      SortTools(req.tools)),
           import_names, custom)

RenderAfterDiscover(c, req) ==
    IF c.err # "" THEN Rendered(c.g, "", c.err, <<>>, <<>>)
    ELSE RenderAfterCustom(ImportNames(c.g),
                           RenderCustomDefinitions(c.g, SkipModelNames(req), 3), req)

\* _generate_uncached from the statement after self._reset()
RenderFrom(g, req) == RenderAfterDiscover(Discover(g, req, 3), req)

\* RenderFrom on a generator just reset, computed once for every request
FreshRender == [req \in Requests |-> RenderFrom(FreshGen, req)]

GenerateUncached(g0, req) ==
    IF Reset(g0) = FreshGen THEN FreshRender[req] ELSE RenderFrom(Reset(g0), req)

(***************************************************************************)
(* The process: the class-level cache shared by every StubGenerator, the   *)
(* generators, and the calls of generate.                                  *)
(***************************************************************************)
VARIABLES
    cache,      \* StubGenerator._cache: key -> text
    gens,       \* the discovery state of each StubGenerator instance
    calls,      \* the number of generate calls made
    last,       \* <<>> or <<the last call of generate and what it returned>>
    storedBy    \* for each key of the cache, the request whose text it holds

vars == <<cache, gens, calls, last, storedBy>>

\* a direct use of _render_union
VARIABLES
    union_members,  \* the members of the union handed to _render_union
    union_result   \* <<>> or <<the text _render_union returned for them>>

unionVars == <<union_members, union_result>>

UnionInit == union_members = <<>> /\ union_result = <<>>

\* threads that call generate
VARIABLES
    thread_pc,      \* the statement of generate each thread stands before
    thread_call,    \* <<>> or <<the instance and the request of its call>>
    thread_text,    \* the text its call of _generate_uncached returned
    thread_out,     \* <<>> or <<what its last call of generate returned>>
    runs,           \* for each request, the calls of _generate_uncached made
    disturbed,      \* a generator was reset or modified under a thread using it
    started         \* the number of calls of generate the threads made

threadVars ==
    <<thread_pc, thread_call, thread_text, thread_out, runs, disturbed, started>>

ThreadIds == {"t1", "t2"}

\* the calls of generate that the threads make
ThreadRequests ==
    { Request("InModel", <<"OutModel">>, <<"add1">>),
      Request("Rich", <<"OutModel">>, <<"norm", "add1">>),
      Request("Loose", <<>>, <<"f">>) }

ThreadInit ==
    /\ thread_pc = [t \in ThreadIds |-> "idle"]
    /\ thread_call = [t \in ThreadIds |-> <<>>]
    /\ thread_text = [t \in ThreadIds |-> ""]
    /\ thread_out = [t \in ThreadIds |-> <<>>]
    /\ runs = [req \in ThreadRequests |-> 0]
    /\ disturbed = FALSE
    /\ started = 0

\* contexts that start, dump, restore and resume snapshots
VARIABLES
    snaps,            \* the MontySnapshot objects made so far
    dumped,           \* the payloads dump returned, each with its snapshot
    events,           \* _debug_payload["events"] of each context
    stub_generator,   \* the discovery state of each context's StubGenerator
    final_read,       \* <<>> or <<the last snapshot whose output was read>>
    snap_call         \* <<>> or <<the last call of dump or resume and its outcome>>

snapVars == <<snaps, dumped, events, stub_generator, final_read, snap_call>>

ContextIds == {"c1", "c2", "c3"}

SnapInit ==
    /\ snaps = {}
    /\ dumped = {}
    /\ events = [c \in ContextIds |-> <<>>]
    /\ stub_generator = [c \in ContextIds |-> FreshGen]
    /\ final_read = <<>>
    /\ snap_call = <<>>

\* the resolution of resource policies
VARIABLES
    registry,     \* available_policies: key -> ResourcePolicy
    resolution    \* <<>> or <<the specs last resolved and what came of it>>

policyVars == <<registry, resolution>>

\* _LIMIT_FIELDS
LimitFields ==
    {"max_allocations", "max_duration_secs", "max_memory", "gc_interval",
     "max_recursion_depth"}

ResourcePolicy(name, guard, inherits) ==
    [name |-> name, guard |-> guard, inherits |-> inherits]

\* the keys of the registry and the guard of the policy under each key;
\* a guard is the function of the fields it sets (durations in milliseconds)
PolicyKeys == {"a", "b", "c"}

GuardAt ==
    ("a" :> (("max_memory" :> 2048) @@ ("max_allocations" :> 10)))
 @@ ("b" :> (("max_memory" :> 4096) @@ ("max_recursion_depth" :> 100)))
 @@ ("c" :> (("max_recursion_depth" :> 50) @@ ("max_duration_secs" :> 500)))

PolicyInit ==
    /\ registry = [key \in PolicyKeys |-> ResourcePolicy(key, GuardAt[key], <<>>)]
    /\ resolution = <<>>

\* the effective limits of an execution
VARIABLES
    effective     \* <<>> or <<the last call of resolve_effective_limits and what came of it>>

limitVars == <<effective>>

LimitInit == effective = <<>>

\* the guarded filesystem
VARIABLES
    mounted,      \* the GrailFilesystem in use
    os_files,     \* the files of the underlying OS: location -> content
    os_writes,    \* how many operations have modified the OS since the mount
    reached,      \* the calls the last operation forwarded to the OS or a hook
    fs_last       \* <<>> or <<the last operation and what came of it>>

fsVars == <<mounted, os_files, os_writes, reached, fs_last>>

\* a path is the sequence of its parts; an absolute one starts at "/"
AbsPath(parts) == [abs |-> TRUE, parts |-> parts]

RelPath(parts) == [abs |-> FALSE, parts |-> parts]

\* the files the OS is seeded with
SeedFiles ==
    (<<"sandbox", "pub", "a.txt">> :> "seed")
 @@ (<<"sandbox", "work", "b.txt">> :> "seed")
 @@ (<<"sandbox", "work", "ro.txt">> :> "seed")
 @@ (<<"sandbox", "secret", "key">> :> "seed")
 @@ (<<"etc", "passwd">> :> "seed")

\* the symbolic links of the OS: where a path resolves to
ResolveMap ==
    (<<"sandbox", "link">> :> <<"sandbox", "secret", "key">>)
 @@ (<<"sandbox", "work", "out">> :> <<"etc", "passwd">>)

\* the working directory of the OS
WorkingDir == <<"sandbox">>

NoPaths == [p \in {} |-> ""]

\* GrailFilesystem(os, root_dir=, permissions=, default_permission=,
\* read_hooks=, write_hooks=): hooks are named by the prefix they are under
Filesystems ==
    ("plain" :>
        [root |-> <<"sandbox">>,
         permissions |-> (<<"sandbox">> :> "read")
                      @@ (<<"sandbox", "work">> :> "write")
                      @@ (<<"sandbox", "work", "ro.txt">> :> "read")
                      @@ (<<"sandbox", "secret">> :> "deny"),
         default_permission |-> "deny",
         read_hooks |-> {}, write_hooks |-> {}])
 @@ ("hooked" :>
        [root |-> <<"sandbox">>,
         permissions |-> (<<"sandbox", "work">> :> "write"),
         default_permission |-> "deny",
         read_hooks |-> {<<"sandbox", "work">>, <<"sandbox", "work", "b.txt">>,
                         <<"sandbox", "pub">>},
         write_hooks |-> {<<"sandbox", "work">>, <<"sandbox", "secret">>}])
 @@ ("open" :>
        [root |-> <<"sandbox">>,
         permissions |-> (<<"sandbox", "secret">> :> "deny")
                      @@ (<<"sandbox", "pub">> :> "read"),
         default_permission |-> "write",
         read_hooks |-> {}, write_hooks |-> {}])

FsInit ==
    /\ mounted = "plain"
    /\ os_files = SeedFiles
    /\ os_writes = 0
    /\ reached = <<>>
    /\ fs_last = <<>>

\* the registry of the tools of a context
VARIABLES
    tool_registry,    \* ToolRegistry._tools: name -> tool
    register_calls,   \* the register calls made on the registry, in order
    register_last     \* <<>> or <<what the last call of the registry came to>>

toolVars == <<tool_registry, register_calls, register_last>>

\* the callables handed to the registry: two different functions named
\* add, and one named norm
Callables == {"add1", "add3", "norm"}

NoTools == [n \in {} |-> ""]

ToolInit ==
    /\ tool_registry = NoTools
    /\ register_calls = <<>>
    /\ register_last = <<>>

\* the variables of the runtime services
\* the calls of execute_async
VARIABLES
    running,      \* for each context, <<>> or <<the call that awaits run_monty_async>>
    executes,     \* the number of calls of execute_async made
    returned      \* <<>> or <<the last call that returned or raised, with the events then>>

execVars == <<running, executes, returned>>

ExecInit ==
    /\ running = [c \in ContextIds |-> <<>>]
    /\ executes = 0
    /\ returned = <<>>

runtimeVars == <<limitVars, fsVars, toolVars, execVars>>

RuntimeInit == LimitInit /\ FsInit /\ ToolInit /\ ExecInit

\* the variables of the other components, which a call of generate leaves alone
otherVars == <<unionVars, threadVars, snapVars, policyVars, runtimeVars>>

allVars == <<vars, otherVars>>

\* the StubGenerator instances of the process
Instances == {"g1", "g2"}

EmptyCache == [k \in {} |-> ""]

\* self._cache.get(key): None, or the stored text
CacheGet(c, key) == IF key \in DOMAIN c THEN <<c[key]>> ELSE <<>>

\* self._cache[key] = rendered
CacheStore(c, key, rendered) ==
    [k \in (DOMAIN c) \cup {key} |-> IF k = key THEN rendered ELSE c[k]]

Init ==
    /\ cache = EmptyCache
    /\ gens = [i \in Instances |-> FreshGen]
    /\ calls = 0
    /\ last = <<>>
    /\ storedBy = EmptyCache
    /\ UnionInit
    /\ ThreadInit
    /\ SnapInit
    /\ PolicyInit
    /\ RuntimeInit

\* what a call looked like to its caller, whether it ran the renderer, and
\* the discovery state its instance held when it was called
Call(i, req, key, rendered, r) ==
    [inst |-> i, req |-> req, key |-> key, rendered |-> rendered,
     before |-> gens[i],
     err |-> r.err, text |-> r.text, imports |-> r.imports, aux |-> r.aux]

\* _cache_key of every request, computed once
RequestKey == [req \in Requests |-> CacheKey(req)]

\* if cached is not None: return cached
Hit(i, req, key, cached) ==
    /\ last' = <<Call(i, req, key, FALSE, Rendered(gens[i], cached, "", <<>>, <<>>))>>
    /\ UNCHANGED <<cache, gens, storedBy>>

\* rendered = self._generate_uncached(...); self._cache[key] = rendered
Miss(i, req, key, r) ==
    /\ last' = <<Call(i, req, key, TRUE, r)>>
    /\ gens' = [gens EXCEPT ![i] = r.g]
    /\ IF r.err = ""
           THEN /\ cache' = CacheStore(cache, key, r.text)
                /\ storedBy' = CacheStore(storedBy, key, req)
           ELSE UNCHANGED <<cache, storedBy>>

Lookup(i, req, key, cached) ==
    IF cached # <<>> THEN Hit(i, req, key, cached[1])
    ELSE Miss(i, req, key, GenerateUncached(gens[i], req))

\* StubGenerator.generate on instance i
Generate(i, req) ==
    /\ calls < MaxCalls
    /\ UNCHANGED otherVars
    /\ calls' = calls + 1
    /\ Lookup(i, req, RequestKey[req], CacheGet(cache, RequestKey[req]))

\* StubGenerator._cache.clear()
ClearCache ==
    /\ cache # EmptyCache
    /\ UNCHANGED otherVars
    /\ cache' = EmptyCache
    /\ storedBy' = EmptyCache
    /\ UNCHANGED <<gens, calls, last>>

Next ==
    \/ \E i \in Instances, req \in Requests : Generate(i, req)
    \/ ClearCache

Spec == Init /\ [][Next]_allVars


\* a process in which StubGenerator._cache is never cleared
NextNoClear == \E i \in Instances, req \in Requests : Generate(i, req)

SpecNoClear == Init /\ [][NextNoClear]_allVars

(***************************************************************************)
(* Reading a generated text: its header line, the rest, and the            *)
(* identifiers that occur in it.                                           *)
(***************************************************************************)
IdentChars == "ABCDEFGHIJKLMNOPQRSTUVWXYZ_abcdefghijklmnopqrstuvwxyz0123456789"

IdentSet == {SubSeq(IdentChars, i, i) : i \in 1..Len(IdentChars)}

\* the first position of a line feed in text (Len(text) + 1 if none)
FirstLineEnd(text) ==
    CHOOSE i \in 1..(Len(text) + 1) :
        /\ i = Len(text) + 1 \/ SubSeq(text, i, i) = "\n"
        /\ \A j \in 1..(i - 1) : SubSeq(text, j, j) # "\n"

HeaderLine(text) == SubSeq(text, 1, FirstLineEnd(text) - 1)

Body(text) == SubSeq(text, FirstLineEnd(text), Len(text))

\* word occurs in text as a whole identifier
HasWord(text, word) ==
    \E i \in 1..(Len(text) - Len(word) + 1) :
        /\ SubSeq(text, i, i + Len(word) - 1) = word
        /\ i = 1 \/ SubSeq(text, i - 1, i - 1) \notin IdentSet
        /\ i + Len(word) > Len(text)
              \/ SubSeq(text, i + Len(word), i + Len(word)) \notin IdentSet

\* the last call of generate returned a text
Returned == last # <<>> /\ last[1].err = ""

(***************************************************************************)
(* C1: in a process that never clears the cache, every call of generate    *)
(* that returns a text returns exactly the text _generate_uncached         *)
(* produces for the request of that call.                                  *)
(***************************************************************************)
C1_CacheTransparent ==
    Returned =>
        last[1].text = GenerateUncached(gens[last[1].inst], last[1].req).text

(***************************************************************************)
(* C2: a call of generate returns the same text as the call before it      *)
(* when both were made for the same request, whatever happened to the      *)
(* cache between them.                                                     *)
(***************************************************************************)
C2_Deterministic ==
    [][(/\ Returned
        /\ calls' # calls
        /\ last'[1].err = ""
        /\ last'[1].req = last[1].req) => last'[1].text = last[1].text]_vars

(***************************************************************************)
(* C3: no call of generate raises on an annotation shape; the error of a   *)
(* walk that exceeds the recursion limit is the subject of C4.             *)
(***************************************************************************)
C3_GenerateTotal ==
    last # <<>> => last[1].err \in {"", "RecursionError"}

(***************************************************************************)
(* C4: every call of generate finishes its discovery and emission walks:   *)
(* no walk descends until the recursion limit stops it.                    *)
(***************************************************************************)
C4_WalkTerminates ==
    last # <<>> => last[1].err # "RecursionError"

(***************************************************************************)
(* C5: in a process that never clears the cache, a call of generate that   *)
(* follows a call with an equal key does not invoke _generate_uncached     *)
(* and returns the text the earlier call returned.                         *)
(***************************************************************************)
C5_SecondCallSkipsRendering ==
    [][(last # <<>> /\ calls' # calls /\ last'[1].key = last[1].key)
          => /\ ~last'[1].rendered
             /\ last'[1].err = ""
             /\ last'[1].text = last[1].text
             /\ cache' = cache]_vars

\* request b is request a after a change of the signature of one of its
\* tools: the same schemas, the same tool names, other parameters or return
SignatureChanged(a, b) ==
    /\ a.input = b.input
    /\ a.output = b.output
    /\ Len(a.tools) = Len(b.tools)
    /\ \A n \in 1..Len(a.tools) : Tools[a.tools[n]].name = Tools[b.tools[n]].name
    /\ \E n \in 1..Len(a.tools) : Tools[a.tools[n]] # Tools[b.tools[n]]

(***************************************************************************)
(* C6: a call of generate for a request that differs by a tool signature   *)
(* from the request of a cache entry has another key than that entry,      *)
(* leaves the entry as it is, and, when its own key is not in the cache,   *)
(* invokes the renderer and stores a further entry.                        *)
(***************************************************************************)
C6_SignatureChangeNewEntry ==
    [][\A k \in DOMAIN cache :
          (calls' # calls /\ SignatureChanged(storedBy[k], last'[1].req))
              => /\ last'[1].key # k
                 /\ k \in DOMAIN cache' /\ cache'[k] = cache[k]
                 /\ last'[1].key \notin DOMAIN cache
                        => /\ last'[1].rendered
                           /\ DOMAIN cache' = DOMAIN cache \cup {last'[1].key}]_vars

(***************************************************************************)
(* C7: a text returned by generate whose declarations contain the name     *)
(* Any has a header line that imports Any.                                 *)
(***************************************************************************)
C7_AnyImported ==
    (Returned /\ HasWord(Body(last[1].text), "Any"))
        => HasWord(HeaderLine(last[1].text), "Any")

(***************************************************************************)
(* C8: when the rendering of a request set the uses-callable flag of the   *)
(* generator, the header line of the text rendered includes Callable.      *)
(***************************************************************************)
C8_CallableImported ==
    (Returned /\ last[1].rendered /\ gens[last[1].inst].uses_callable)
        => HasWord(HeaderLine(last[1].text), "Callable")

\* the first characters of the definition of a new-type, alias, schema
\* model or fixed-field record in a generated text
DefinitionHead(id) ==
    CASE Types[id].kind = "newtype" -> Types[id].name \o " = NewType("
      [] Types[id].kind = "alias" -> Types[id].name \o " = "
      [] Types[id].kind = "model" -> "class " \o Types[id].name \o "(TypedDict):"
      [] OTHER -> "class " \o Types[id].name \o ":"

(***************************************************************************)
(* C9: every new-type, alias, schema model or fixed-field record whose     *)
(* name occurs in a text returned by generate has its definition in that   *)
(* text, and the header line imports NewType when it is a new-type.        *)
(***************************************************************************)
C9_ReferencedNamesDefined ==
    Returned =>
        \A id \in TypeIds :
            (Types[id].kind # "class" /\ HasWord(Body(last[1].text), Types[id].name))
                => /\ Contains(last[1].text, "\n" \o DefinitionHead(id))
                   /\ Types[id].kind = "newtype"
                          => HasWord(HeaderLine(last[1].text), "NewType")

\* a sequence of names in sorted order
IsNameSorted(names) ==
    \A i, j \in 1..Len(names) : i < j => ~StrLt(names[j], names[i])

(***************************************************************************)
(* C10 as stated: the auxiliary definitions of a rendered text are in      *)
(* name-sorted order.                                                      *)
(***************************************************************************)
C10_AuxNameSorted ==
    (Returned /\ last[1].rendered) => IsNameSorted(last[1].aux)

\* the object that emit_named finds under name in the registries of g
RegisteredId(g, name) ==
    IF name \in DOMAIN g.new_types THEN g.new_types[name]
    ELSE IF name \in DOMAIN g.type_aliases THEN g.type_aliases[name]
    ELSE IF name \in DOMAIN g.base_models THEN g.base_models[name]
    ELSE g.dataclasses[name]

\* the names an annotation refers to, outside the parameter list of a Callable
RECURSIVE NamesIn(_)
NamesIn(a) ==
    IF a.tag = "named" /\ Types[a.ref].kind # "class" THEN {Types[a.ref].name}
    ELSE IF a.tag = "generic" THEN UNION {NamesIn(a.args[n]) : n \in 1..Len(a.args)}
    ELSE {}

\* the names the definition registered under name refers to
DirectDependencies(g, name) ==
    IF name \notin Candidates(g) THEN {}
    ELSE IF Types[RegisteredId(g, name)].kind \in {"newtype", "alias"}
        THEN NamesIn(Types[RegisteredId(g, name)].body)
    ELSE UNION {NamesIn(FieldAnns(RegisteredId(g, name))[n]) :
                    n \in 1..Len(FieldAnns(RegisteredId(g, name)))}

RECURSIVE DependenciesWithin(_, _, _)
DependenciesWithin(g, names, steps) ==
    IF steps = 0 THEN names
    ELSE IF UNION {DirectDependencies(g, x) : x \in names} \subseteq names THEN names
    ELSE DependenciesWithin(
             g, names \cup UNION {DirectDependencies(g, x) : x \in names}, steps - 1)

\* the names the definition registered under name refers to, directly or not
Dependencies(g, name) ==
    DependenciesWithin(g, DirectDependencies(g, name), Cardinality(TypeIds))

\* names[i] stands before names[j] although it sorts after it
Inverted(names, i, j) == i < j /\ StrLt(names[j], names[i])

(***************************************************************************)
(* C10 as amended: no auxiliary definition is written twice, and one       *)
(* stands before a definition that sorts before it only if it is a         *)
(* dependency of that definition or of one that sorts before that          *)
(* definition.                                                             *)
(***************************************************************************)
C10_AuxSortedAfterDependencies ==
    (Returned /\ last[1].rendered) =>
        \A i, j \in 1..Len(last[1].aux) :
            /\ i # j => last[1].aux[i] # last[1].aux[j]
            /\ Inverted(last[1].aux, i, j)
                   => \E n \in 1..Len(last[1].aux) :
                         /\ ~StrLt(last[1].aux[j], last[1].aux[n])
                         /\ last[1].aux[i]
                                \in Dependencies(gens[last[1].inst], last[1].aux[n])

\* a rendered text in which a dependency stands before a definition that
\* sorts before it
C10_DependencyFirstRendered ==
    /\ Returned /\ last[1].rendered
    /\ \E i, j \in 1..Len(last[1].aux) : Inverted(last[1].aux, i, j)


\* the number of places at which needle occurs in text
Occurrences(text, needle) ==
    Cardinality({i \in 1..(Len(text) - Len(needle) + 1) :
                     SubSeq(text, i, i + Len(needle) - 1) = needle})

\* the fields of the input model of req annotated with a named type render
\* as "name: TypeName"
FieldsByBareName(text, req) ==
    \A n \in 1..Len(Types[req.input].fields) :
        Types[req.input].fields[n].ann.tag = "named"
            => Contains(text, "\n    " \o Types[req.input].fields[n].name \o ": "
                                  \o Types[Types[req.input].fields[n].ann.ref].name \o "\n")

(***************************************************************************)
(* C11: every new-type, alias, schema model or fixed-field record whose    *)
(* name occurs in a text rendered by generate is declared exactly once in  *)
(* that text, and a field annotated with such a type is rendered with the  *)
(* bare name of the type.                                                  *)
(***************************************************************************)
C11_DeclaredExactlyOnce ==
    (Returned /\ last[1].rendered) =>
        /\ \A id \in TypeIds :
              (Types[id].kind # "class" /\ HasWord(Body(last[1].text), Types[id].name))
                  => Occurrences(last[1].text, "\n" \o DefinitionHead(id)) = 1
        /\ FieldsByBareName(last[1].text, last[1].req)


(***************************************************************************)
(* _render_union applied to unions built member by member.  typing keeps   *)
(* the members of a Union distinct as objects; two distinct members may    *)
(* still render as the same text (the two classes named M).                *)
(***************************************************************************)
\* number of members of a union
MaxUnion == 3

UnionMembers ==
    {IntT, StrT, NoneT, Named("UserId"), Named("M1"), Named("M2"),
     Gen("list", <<IntT>>)}

\* a further member joins the union, and the union is rendered
RenderUnionOf(member) ==
    /\ Len(union_members) < MaxUnion
    /\ member \notin Range(union_members)
    /\ union_members' = Append(union_members, member)
    /\ union_result' = <<RenderUnion(FreshGen, Append(union_members, member)).text>>
    /\ UNCHANGED <<vars, threadVars, snapVars, policyVars, runtimeVars>>

NextUnion == \E member \in UnionMembers : RenderUnionOf(member)

SpecUnion == Init /\ [][NextUnion]_allVars

\* the rendered texts of the members of the union
MemberTexts == {AnnotationToStub(FreshGen, union_members[n]).text : n \in 1..Len(union_members)}

\* the text determined by a set of member texts: the texts other than None
\* in sorted order, each once, then None if it is among them
CanonicalUnion(texts) ==
    Join(" | ", SortStrSet(texts \ {"None"})
                    \o (IF "None" \in texts THEN <<"None">> ELSE <<>>))

(***************************************************************************)
(* C12: the text of a union is determined by the set of the rendered       *)
(* texts of its members: the texts other than None, sorted and each once,  *)
(* joined by " | ", with None last; Optional[int] renders as int | None.   *)
(***************************************************************************)
C12_UnionCanonical ==
    union_result # <<>> =>
        /\ union_result[1] = CanonicalUnion(MemberTexts)
        /\ MemberTexts = {"int", "None"} => union_result[1] = "int | None"

\* a union rendered from unsorted members, None not last, two of them with
\* one text
C12_UnsortedDuplicateUnion ==
    /\ union_result # <<>>
    /\ union_members = <<Named("M1"), NoneT, Named("M2")>>


\* request b is request a with its tools passed in another order
Permuted(a, b) ==
    /\ a.input = b.input
    /\ a.output = b.output
    /\ Len(a.tools) = Len(b.tools)
    /\ Range(a.tools) = Range(b.tools)
    /\ Cardinality(Range(a.tools)) = Len(a.tools)

\* the first place at which needle occurs in text (0 if none)
Position(text, needle) ==
    IF Contains(text, needle)
        THEN CHOOSE i \in 1..Len(text) :
                 /\ SubSeq(text, i, i + Len(needle) - 1) = needle
                 /\ \A j \in 1..(i - 1) : SubSeq(text, j, j + Len(needle) - 1) # needle
    ELSE 0

\* the signature lines of the tools of req stand in text in the order of
\* the names of the tools
ToolLinesSorted(text, req) ==
    \A m, n \in 1..Len(req.tools) :
        StrLt(Tools[req.tools[m]].name, Tools[req.tools[n]].name)
            => /\ Position(text, "\ndef " \o Tools[req.tools[m]].name \o "(") > 0
               /\ Position(text, "\ndef " \o Tools[req.tools[m]].name \o "(")
                      < Position(text, "\ndef " \o Tools[req.tools[n]].name \o "(")

(***************************************************************************)
(* C13: in a rendered text the signature lines of the tools stand sorted   *)
(* by tool name, and the text is the one rendered for the same request     *)
(* with its (uniquely named) tools passed in any other order.              *)
(***************************************************************************)
C13_ToolOrderIrrelevant ==
    (Returned /\ last[1].rendered) =>
        /\ ToolLinesSorted(last[1].text, last[1].req)
        /\ \A other \in Requests :
              Permuted(last[1].req, other)
                  => GenerateUncached(FreshGen, other).text = last[1].text


\* the positions of the line feeds of text
LineFeeds(text) == {i \in 1..Len(text) : SubSeq(text, i, i) = "\n"}

\* the position of the n-th line feed of text; 0 before the first line and
\* Len(text) + 1 after the last
LineFeed(text, n) ==
    IF n = 0 THEN 0
    ELSE IF n > Cardinality(LineFeeds(text)) THEN Len(text) + 1
    ELSE CHOOSE p \in LineFeeds(text) :
             Cardinality({q \in LineFeeds(text) : q < p}) = n - 1

\* text.split("\n")
Lines(text) ==
    [n \in 1..(Cardinality(LineFeeds(text)) + 1) |->
        SubSeq(text, LineFeed(text, n - 1) + 1, LineFeed(text, n) - 1)]

StartsWith(s, prefix) == Len(s) >= Len(prefix) /\ SubSeq(s, 1, Len(prefix)) = prefix

\* the lines of the block that starts at line n: up to the next empty line
RECURSIVE BlockAt(_, _)
BlockAt(lines, n) ==
    IF n > Len(lines) \/ lines[n] = "" THEN <<>>
    ELSE <<lines[n]>> \o BlockAt(lines, n + 1)

\* block is the declaration of the record id: its head, then one line per
\* field, in the order of the fields of id
IsBlockOf(block, id) ==
    /\ Types[id].kind \in {"model", "dataclass"}
    /\ block[1] = DefinitionHead(id)
    /\ IF Types[id].fields = <<>> THEN Tail(block) = <<"    pass">>
       ELSE /\ Len(block) = 1 + Len(Types[id].fields)
            /\ \A n \in 1..Len(Types[id].fields) :
                  StartsWith(block[n + 1], "    " \o Types[id].fields[n].name \o ": ")

\* every block of lines that starts with "class " declares a record
RecordBlocksInOrder(lines) ==
    \A n \in 1..Len(lines) :
        StartsWith(lines[n], "class ")
            => \E id \in TypeIds : IsBlockOf(BlockAt(lines, n), id)

\* the texts a generator without registrations renders for the requests, and
\* those of them whose record blocks keep the declaration order
FreshTexts == {FreshRender[req].text : req \in Requests}

FreshTextsInOrder == {text \in FreshTexts : RecordBlocksInOrder(Lines(text))}

(***************************************************************************)
(* C14: every record block of a rendered text consists of the head of a    *)
(* record and one line per field of that record, in the order in which     *)
(* the record declares its fields.                                         *)
(***************************************************************************)
C14_FieldOrderPreserved ==
    (Returned /\ last[1].rendered) =>
        IF last[1].text \in FreshTexts THEN last[1].text \in FreshTextsInOrder
        ELSE RecordBlocksInOrder(Lines(last[1].text))

\* a rendered text with the block of Profile, whose fields user_id, tags
\* are not declared in sorted order
C14_UnsortedFieldsRendered ==
    /\ Returned /\ last[1].rendered
    /\ Contains(last[1].text, "\nclass Profile:\n    user_id: UserId\n    tags: set[str]\n")


(***************************************************************************)
(* The layout of a text rendered without auxiliary definitions.            *)
(***************************************************************************)
EndsWith(s, suffix) ==
    Len(s) >= Len(suffix) /\ SubSeq(s, Len(s) - Len(suffix) + 1, Len(s)) = suffix

\* the number of lines of the block of the record id
BlockLen(id) == IF Types[id].fields = <<>> THEN 2 ELSE 1 + Len(Types[id].fields)

\* line is the signature line of one of the tools
IsToolLineOf(line, tools) ==
    /\ EndsWith(line, ": ...")
    /\ \E j \in 1..Len(tools) : StartsWith(line, "def " \o Tools[tools[j]].name \o "(")

\* lines is: the header line, gap blank lines, the input block, a blank
\* line and the output block if the request has one, a blank line and a
\* signature line for each tool, and the empty line after the last line feed
LayoutAt(req, lines, gap, input_at, tool_at) ==
    /\ Len(lines) = tool_at + 2 * Len(req.tools)
    /\ StartsWith(lines[1], "from typing import ")
    /\ \A n \in 2..(gap + 1) : lines[n] = ""
    /\ IsBlockOf(SubSeq(lines, input_at, input_at + BlockLen(req.input) - 1), req.input)
    /\ req.output # <<>> =>
          /\ lines[input_at + BlockLen(req.input)] = ""
          /\ IsBlockOf(SubSeq(lines, input_at + BlockLen(req.input) + 1, tool_at - 1),
                       req.output[1])
    /\ \A k \in 1..Len(req.tools) :
          /\ lines[tool_at + 2 * (k - 1)] = ""
          /\ IsToolLineOf(lines[tool_at + 2 * k - 1], req.tools)
    /\ \A j \in 1..Len(req.tools) : \E k \in 1..Len(req.tools) :
          StartsWith(lines[tool_at + 2 * k - 1], "def " \o Tools[req.tools[j]].name \o "(")
    /\ lines[Len(lines)] = ""
    /\ lines[Len(lines) - 1] # ""
    /\ RStrip(lines[Len(lines) - 1]) = lines[Len(lines) - 1]

Layout(req, lines, gap) ==
    LayoutAt(req, lines, gap, gap + 2,
             gap + 2 + BlockLen(req.input)
                 + (IF req.output = <<>> THEN 0 ELSE 1 + BlockLen(req.output[1])))

\* the requests whose text, rendered by a generator without registrations,
\* has the layout with one and with two blank lines after the header line
FreshLayoutOneBlank ==
    {req \in Requests : Layout(req, Lines(FreshRender[req].text), 1)}

FreshLayoutTwoBlanks ==
    {req \in Requests : Layout(req, Lines(FreshRender[req].text), 2)}

\* the call that returned rendered its text and no auxiliary definition
RenderedWithoutAux == Returned /\ last[1].rendered /\ last[1].aux = <<>>

(***************************************************************************)
(* C15 as stated: a text rendered without auxiliary definitions is the     *)
(* header line, one blank line, the input block, one blank line and the    *)
(* output block if there is one, for each tool one blank line and its      *)
(* signature line, and ends with exactly one line feed.                    *)
(***************************************************************************)
C15_LayoutOneBlank ==
    RenderedWithoutAux =>
        IF last[1].text = FreshRender[last[1].req].text
            THEN last[1].req \in FreshLayoutOneBlank
        ELSE Layout(last[1].req, Lines(last[1].text), 1)

(***************************************************************************)
(* C15, amended: the same layout with two blank lines between the header   *)
(* line and the input block.                                               *)
(***************************************************************************)
C15_LayoutTwoBlanks ==
    RenderedWithoutAux =>
        IF last[1].text = FreshRender[last[1].req].text
            THEN last[1].req \in FreshLayoutTwoBlanks
        ELSE Layout(last[1].req, Lines(last[1].text), 2)

\* a text with an input block, an output block and a tool line and no
\* auxiliary definition has been rendered
C15_FullLayoutRendered ==
    /\ RenderedWithoutAux
    /\ last[1].req.output # <<>>
    /\ last[1].req.tools # <<>>
    /\ Contains(last[1].text, "\n\n\nclass InModel(TypedDict):")


(***************************************************************************)
(* Threads calling generate.  generate takes no lock: between two of its   *)
(* statements another thread may run.  A step of a thread is one statement *)
(* of generate or of _generate_uncached, on the cache of the class and on  *)
(* the generator the thread was given.                                     *)
(***************************************************************************)
\* the bound on the calls of generate the threads make
MaxStarted == 3

TheInst(t) == thread_call[t][1].inst

TheReq(t) == thread_call[t][1].req

\* what a call of generate gave its caller
Outcome(req, text, err) == [req |-> req, text |-> text, err |-> err]

\* the generator of thread t is in use by another thread, which has reset
\* it and has not finished rendering from it
InUseByOther(t) ==
    \E u \in ThreadIds \ {t} :
        /\ thread_pc[u] \in {"discover", "render"}
        /\ TheInst(u) = TheInst(t)

\* the call of thread t ends
Return(t, outcome) ==
    /\ thread_out' = [thread_out EXCEPT ![t] = <<outcome>>]
    /\ thread_pc' = [thread_pc EXCEPT ![t] = "idle"]
    /\ thread_call' = [thread_call EXCEPT ![t] = <<>>]

ThreadGetRest(t, i, req, cached) ==
    IF cached # <<>>
        THEN /\ Return(t, Outcome(req, cached[1], ""))
        ELSE /\ thread_pc' = [thread_pc EXCEPT ![t] = "reset"]
             /\ thread_call' = [thread_call EXCEPT ![t] = <<[inst |-> i, req |-> req]>>]
             /\ UNCHANGED thread_out

\* key = _cache_key(...); cached = self._cache.get(key); if cached is not
\* None: return cached
ThreadGet(t, i, req) ==
    /\ thread_pc[t] = "idle"
    /\ started < MaxStarted
    /\ UNCHANGED <<calls, last, unionVars, snapVars, policyVars, runtimeVars>>
    /\ started' = started + 1
    /\ ThreadGetRest(t, i, req, CacheGet(cache, RequestKey[req]))
    /\ UNCHANGED <<cache, storedBy, gens, thread_text, runs, disturbed>>

\* the call of _generate_uncached: self._reset()
ThreadReset(t) ==
    /\ thread_pc[t] = "reset"
    /\ UNCHANGED <<calls, last, unionVars, snapVars, policyVars, runtimeVars>>
    /\ gens' = [gens EXCEPT ![TheInst(t)] = Reset(@)]
    /\ runs' = [runs EXCEPT ![TheReq(t)] = @ + 1]
    /\ disturbed' = (disturbed \/ InUseByOther(t))
    /\ thread_pc' = [thread_pc EXCEPT ![t] = "discover"]
    /\ UNCHANGED <<cache, storedBy, thread_call, thread_text, thread_out, started>>

ThreadDiscovered(t, c) ==
    /\ gens' = [gens EXCEPT ![TheInst(t)] = c.g]
    /\ disturbed' = (disturbed \/ (InUseByOther(t) /\ c.g # gens[TheInst(t)]))
    /\ IF c.err # ""
           THEN Return(t, Outcome(TheReq(t), "", c.err))
           ELSE /\ thread_pc' = [thread_pc EXCEPT ![t] = "render"]
                /\ UNCHANGED <<thread_call, thread_out>>

\* the walk of the schemas and of the tools
ThreadDiscover(t) ==
    /\ thread_pc[t] = "discover"
    /\ UNCHANGED <<calls, last, unionVars, snapVars, policyVars, runtimeVars>>
    /\ ThreadDiscovered(t, Discover(gens[TheInst(t)], TheReq(t), 3))
    /\ UNCHANGED <<cache, storedBy, thread_text, runs, started>>

ThreadRendered(t, r) ==
    /\ gens' = [gens EXCEPT ![TheInst(t)] = r.g]
    /\ disturbed' = (disturbed \/ (InUseByOther(t) /\ r.g # gens[TheInst(t)]))
    /\ IF r.err # ""
           THEN /\ Return(t, Outcome(TheReq(t), "", r.err))
                /\ UNCHANGED thread_text
           ELSE /\ thread_pc' = [thread_pc EXCEPT ![t] = "store"]
                /\ thread_text' = [thread_text EXCEPT ![t] = r.text]
                /\ UNCHANGED <<thread_call, thread_out>>

\* the rest of _generate_uncached: the header, the auxiliary definitions,
\* the blocks and the tool lines, from the registries as they are now
ThreadRender(t) ==
    /\ thread_pc[t] = "render"
    /\ UNCHANGED <<calls, last, unionVars, snapVars, policyVars, runtimeVars>>
    /\ ThreadRendered(t, RenderAfterDiscover(Res(gens[TheInst(t)], "", ""), TheReq(t)))
    /\ UNCHANGED <<cache, storedBy, runs, started>>

\* self._cache[key] = rendered; return rendered
ThreadStore(t) ==
    /\ thread_pc[t] = "store"
    /\ UNCHANGED <<calls, last, unionVars, snapVars, policyVars, runtimeVars>>
    /\ cache' = CacheStore(cache, RequestKey[TheReq(t)], thread_text[t])
    /\ storedBy' = CacheStore(storedBy, RequestKey[TheReq(t)], TheReq(t))
    /\ Return(t, Outcome(TheReq(t), thread_text[t], ""))
    /\ UNCHANGED <<gens, thread_text, runs, disturbed, started>>

NextThreads ==
    \/ \E t \in ThreadIds, i \in Instances, req \in ThreadRequests : ThreadGet(t, i, req)
    \/ \E t \in ThreadIds : ThreadReset(t)
    \/ \E t \in ThreadIds : ThreadDiscover(t)
    \/ \E t \in ThreadIds : ThreadRender(t)
    \/ \E t \in ThreadIds : ThreadStore(t)

SpecThreads == Init /\ [][NextThreads]_allVars

\* for one key the renderer runs at most once
RendersOncePerKey == \A req \in ThreadRequests : runs[req] <= 1

\* every text returned to a caller or stored in the cache is the text a
\* sequential call renders for the request
SequentialTexts ==
    /\ \A t \in ThreadIds :
          (thread_out[t] # <<>> /\ thread_out[t][1].err = "")
              => thread_out[t][1].text = FreshRender[thread_out[t][1].req].text
    /\ \A req \in ThreadRequests :
          RequestKey[req] \in DOMAIN cache => cache[RequestKey[req]] = FreshRender[req].text

\* every call that ended returned a text
NoThreadRaises == \A t \in ThreadIds : thread_out[t] # <<>> => thread_out[t][1].err = ""

(***************************************************************************)
(* C16: under concurrent callers of generate the renderer runs at most     *)
(* once for a key, no caller's generator is reset or modified by another   *)
(* caller while it renders, and every text returned or stored is the text  *)
(* a sequential call produces.                                             *)
(***************************************************************************)
C16_MutuallyExclusive ==
    /\ RendersOncePerKey
    /\ ~disturbed
    /\ SequentialTexts


(***************************************************************************)
(* Values handed to and returned by the engine, and their JSON text.  The  *)
(* engine is the one of the contract tests: a paused state holds the call  *)
(* add(a, b) and the output the script will return; its dump is the JSON   *)
(* text of these, its load parses that text.                               *)
(***************************************************************************)
JInt(n) == [t |-> "int", n |-> n]
JStr(chars) == [t |-> "str", chars |-> chars]
JDict(items) == [t |-> "dict", items |-> items]

NoItems == [k \in {} |-> JInt(0)]

Digits == "0123456789"

RECURSIVE NatToStr(_)
NatToStr(n) ==
    IF n < 10 THEN SubSeq(Digits, n + 1, n + 1)
    ELSE NatToStr(n \div 10) \o SubSeq(Digits, (n % 10) + 1, (n % 10) + 1)

\* str(n) of an int
IntToStr(n) == IF n < 0 THEN "-" \o NatToStr(0 - n) ELSE NatToStr(n)

IsDigit(c) == \E d \in 1..10 : SubSeq(Digits, d, d) = c

DigitValue(c) == (CHOOSE d \in 1..10 : SubSeq(Digits, d, d) = c) - 1

IsNatText(chars) ==
    Len(chars) > 0 /\ \A i \in 1..Len(chars) : IsDigit(SubSeq(chars, i, i))

\* the text is an optional sign and digits
IsIntText(chars) ==
    IF StartsWith(chars, "-") \/ StartsWith(chars, "+")
        THEN IsNatText(SubSeq(chars, 2, Len(chars)))
        ELSE IsNatText(chars)

RECURSIVE StrToNat(_)
StrToNat(chars) ==
    IF chars = "" THEN 0
    ELSE 10 * StrToNat(SubSeq(chars, 1, Len(chars) - 1))
             + DigitValue(SubSeq(chars, Len(chars), Len(chars)))

\* int(text) of a text that is an int
StrToInt(chars) ==
    IF StartsWith(chars, "-") THEN 0 - StrToNat(SubSeq(chars, 2, Len(chars)))
    ELSE IF StartsWith(chars, "+") THEN StrToNat(SubSeq(chars, 2, Len(chars)))
    ELSE StrToNat(chars)

\* json.dumps of an int or of a str without characters to escape
ScalarDumps(value) ==
    IF value.t = "int" THEN IntToStr(value.n) ELSE "\"" \o value.chars \o "\""

\* the keys of a dict, sorted
SortedKeys(items) == SortStrSet(DOMAIN items)

\* json.dumps(value, sort_keys=True) of an int, a str, or a dict of them
JsonDumps(value) ==
    IF value.t = "dict"
        THEN "{" \o Join(", ", [i \in 1..Len(SortedKeys(value.items)) |->
                 "\"" \o SortedKeys(value.items)[i] \o "\": "
                     \o ScalarDumps(value.items[SortedKeys(value.items)[i]])]) \o "}"
        ELSE ScalarDumps(value)

\* the first position of needle in text, or 0
IndexOf(text, needle) ==
    IF Contains(text, needle)
        THEN CHOOSE i \in 1..(Len(text) - Len(needle) + 1) :
                 /\ SubSeq(text, i, i + Len(needle) - 1) = needle
                 /\ \A j \in 1..(i - 1) : SubSeq(text, j, j + Len(needle) - 1) # needle
        ELSE 0

\* the part of text between the first marker and the next closer, in a
\* one-element sequence; <<>> when either is missing
Between(text, marker, closer) ==
    IF IndexOf(text, marker) = 0 THEN <<>>
    ELSE IF IndexOf(SubSeq(text, IndexOf(text, marker) + Len(marker), Len(text)), closer) = 0
        THEN <<>>
    ELSE <<SubSeq(text, IndexOf(text, marker) + Len(marker),
                  IndexOf(text, marker) + Len(marker) - 2
                      + IndexOf(SubSeq(text, IndexOf(text, marker) + Len(marker), Len(text)),
                                closer))>>

\* text.split(", ") of a text, "" giving no part
RECURSIVE SplitComma(_)
SplitComma(text) ==
    IF text = "" THEN <<>>
    ELSE IF IndexOf(text, ", ") = 0 THEN <<text>>
    ELSE <<SubSeq(text, 1, IndexOf(text, ", ") - 1)>>
             \o SplitComma(SubSeq(text, IndexOf(text, ", ") + 2, Len(text)))

\* json.loads of the text of an int or of a str; <<>> when it is neither
ScalarLoads(text) ==
    IF IsIntText(text) /\ ~StartsWith(text, "+") THEN <<JInt(StrToInt(text))>>
    ELSE IF Len(text) >= 2 /\ StartsWith(text, "\"") /\ EndsWith(text, "\"")
        THEN <<JStr(SubSeq(text, 2, Len(text) - 1))>>
    ELSE <<>>

\* json.loads of the text of a list of scalars, given the text between the
\* brackets; <<>> when an element is no scalar
ListLoads(inner) ==
    IF \E i \in 1..Len(SplitComma(inner)) : ScalarLoads(SplitComma(inner)[i]) = <<>>
        THEN <<>>
    ELSE <<[i \in 1..Len(SplitComma(inner)) |-> ScalarLoads(SplitComma(inner)[i])[1]]>>

\* json.loads of the text of a dict with at most the key total, given the
\* text between the braces
DictLoads(inner) ==
    IF inner = "" THEN <<JDict(NoItems)>>
    ELSE IF StartsWith(inner, "\"total\": ")
             /\ ScalarLoads(SubSeq(inner, 10, Len(inner))) # <<>>
        THEN <<JDict("total" :> ScalarLoads(SubSeq(inner, 10, Len(inner)))[1])>>
    ELSE <<>>

\* json.loads of the text of a dict or of a scalar
ValueLoads(text) ==
    IF StartsWith(text, "{") /\ EndsWith(text, "}")
        THEN DictLoads(SubSeq(text, 2, Len(text) - 1))
    ELSE ScalarLoads(text)


(***************************************************************************)
(* The engine of the contract tests.                                       *)
(***************************************************************************)
\* FakeMontySnapshot: a paused call and the output the script will return
PausedState(function_name, args, kwargs, final_output) ==
    [function_name |-> function_name, args |-> args, kwargs |-> kwargs,
     final_output |-> final_output]

\* FakeMontyComplete
CompleteState(output) == [output |-> output]

Returns(value) == [err |-> "", value |-> <<value>>]

Raises(err) == [err |-> err, value |-> <<>>]

\* FakeMonty.start on the serialized inputs
EngineStart(values) ==
    PausedState("add", <<JInt(values["a"].n), JInt(values["b"].n)>>, JDict(NoItems),
                JDict("total" :> JInt(values["a"].n + values["b"].n)))

\* a dump that leaves the arguments of the call out
EngineDumpWithoutArgs(state) ==
    "{\"args\": [], \"final_output\": " \o JsonDumps(state.final_output)
        \o ", \"function_name\": \"" \o state.function_name
        \o "\", \"kwargs\": " \o JsonDumps(state.kwargs) \o "}"

\* FakeMontySnapshot.dump: json.dumps(payload, sort_keys=True)
EngineDump(state) ==
    "{\"args\": [" \o Join(", ", [i \in 1..Len(state.args) |-> JsonDumps(state.args[i])])
        \o "], \"final_output\": " \o JsonDumps(state.final_output)
        \o ", \"function_name\": \"" \o state.function_name
        \o "\", \"kwargs\": " \o JsonDumps(state.kwargs) \o "}"

\* the text of the value that starts the text rest
FirstValueText(rest) ==
    IF StartsWith(rest, "{") THEN SubSeq(rest, 1, IndexOf(rest, "}"))
    ELSE IF StartsWith(rest, "\"")
        THEN SubSeq(rest, 1, 1 + IndexOf(SubSeq(rest, 2, Len(rest)), "\""))
    ELSE IF IndexOf(rest, ",") # 0 THEN SubSeq(rest, 1, IndexOf(rest, ",") - 1)
    ELSE SubSeq(rest, 1, Len(rest) - 1)

\* item["final_output"] of the parsed payload
FinalOutputOf(payload) ==
    IF IndexOf(payload, "\"final_output\": ") = 0 THEN <<>>
    ELSE ValueLoads(FirstValueText(
             SubSeq(payload, IndexOf(payload, "\"final_output\": ") + 16, Len(payload))))

EngineLoadRest(name, args, kwargs, final_output) ==
    IF name = <<>> \/ args = <<>> \/ kwargs = <<>> \/ final_output = <<>>
        THEN Raises("KeyError")
    ELSE IF ListLoads(args[1]) = <<>> \/ DictLoads(kwargs[1]) = <<>>
        THEN Raises("ValueError")
    ELSE Returns(PausedState(name[1], ListLoads(args[1])[1], DictLoads(kwargs[1])[1],
                        final_output[1]))

\* FakeMontySnapshot.load: json.loads of the payload, then the constructor
EngineLoad(payload) ==
    IF ~(StartsWith(payload, "{") /\ EndsWith(payload, "}")) THEN Raises("ValueError")
    ELSE EngineLoadRest(Between(payload, "\"function_name\": \"", "\""),
                        Between(payload, "\"args\": [", "]"),
                        Between(payload, "\"kwargs\": {", "}"),
                        FinalOutputOf(payload))

\* int(return_value)
IntOf(value) ==
    IF value.t = "int" THEN <<value.n>>
    ELSE IF value.t = "str" /\ IsIntText(value.chars) THEN <<StrToInt(value.chars)>>
    ELSE <<>>

\* FakeMontySnapshot.resume(return_value=...)
EngineResume(state, return_value) ==
    IF state.final_output.t = "dict" /\ "total" \in DOMAIN state.final_output.items
        THEN IF IntOf(return_value) = <<>> THEN Raises("ValueError")
             ELSE Returns(CompleteState(JDict([state.final_output.items EXCEPT
                         !["total"] = JInt(IntOf(return_value)[1])])))
        ELSE Returns(CompleteState(state.final_output))

(***************************************************************************)
(* MontyContext and MontySnapshot.                                         *)
(***************************************************************************)
Context(input_model, output_model, debug) ==
    [input_model |-> input_model, output_model |-> output_model, debug |-> debug]

\* c1 and c2 are built with the same models; c3 has no output model
Contexts ==
    ("c1" :> Context("SnapshotInput", <<"SnapshotOutput">>, TRUE))
 @@ ("c2" :> Context("SnapshotInput", <<"SnapshotOutput">>, FALSE))
 @@ ("c3" :> Context("SnapshotInput", <<>>, FALSE))

\* the inputs handed to start
StartInputs ==
    { JDict(("a" :> JStr("-14")) @@ ("b" :> JInt(3))),
      JDict(("a" :> JStr("x")) @@ ("b" :> JInt(0))) }

\* the values handed to resume
ResumeValues == {JInt(7), JStr("x")}

\* payloads that no dump made
ForeignPayloads ==
    { "{\"function_name\": \"add\", \"args\": [1, 2], \"kwargs\": {}, \"final_output\": \"invalid\"}",
      "not a payload" }

\* pydantic's validation of an int field: an int, or the text of one
IntLax(value) ==
    IF value.t = "int" THEN <<value>>
    ELSE IF value.t = "str" /\ IsIntText(value.chars) THEN <<JInt(StrToInt(value.chars))>>
    ELSE <<>>

FieldNameSet(model) == {Types[model].fields[i].name : i \in 1..Len(Types[model].fields)}

\* model.model_validate(value) for a model of int fields: the instance in a
\* one-element sequence, or <<>> for a ValidationError
ModelValidate(model, value) ==
    IF value.t # "dict" THEN <<>>
    ELSE IF \E name \in FieldNameSet(model) :
                name \notin DOMAIN value.items \/ IntLax(value.items[name]) = <<>>
        THEN <<>>
    ELSE <<[t |-> "model", model |-> model,
            items |-> [name \in FieldNameSet(model) |-> IntLax(value.items[name])[1]]]>>

\* no validation, whatever the output model
ValidateOutputNever(c, output) == <<output>>

\* MontyContext._validate_output
ValidateOutput(c, output) ==
    IF Contexts[c].output_model = <<>> THEN <<output>>
    ELSE ModelValidate(Contexts[c].output_model[1], output)

\* the mapping of ValidationError of _validated_output_with_event
ValidatedOutput(c, output) ==
    IF ValidateOutput(c, output) = <<>> THEN Raises("GrailOutputValidationError")
    ELSE Returns(ValidateOutput(c, output)[1])

\* a MontySnapshot: the engine state and the context whose
\* _validated_output_with_event and _normalize_monty_exception it was given,
\* and how it came about: by start, by load_snapshot of the payload via, or
\* by resume of the snapshot parent with value
Snapshot(state, c, origin, parent, via, value) ==
    [state |-> state, ctx |-> c, origin |-> origin, parent |-> parent, via |-> via,
     value |-> value]

\* MontySnapshot.is_complete
IsComplete(snap) ==
    "output" \in DOMAIN snap.state /\ "function_name" \notin DOMAIN snap.state

\* MontySnapshot.function_name, args, kwargs: None is <<>>
FunctionName(snap) ==
    IF "function_name" \in DOMAIN snap.state THEN <<snap.state.function_name>> ELSE <<>>

Args(snap) == IF "args" \in DOMAIN snap.state THEN <<snap.state.args>> ELSE <<>>

Kwargs(snap) == IF "kwargs" \in DOMAIN snap.state THEN <<snap.state.kwargs>> ELSE <<>>

\* MontySnapshot.final_value
FinalValue(snap) ==
    IF ~IsComplete(snap) THEN Raises("RuntimeError")
    ELSE ValidatedOutput(snap.ctx, snap.state.output)

\* MontyContext._event
Event(c, log, name) == IF Contexts[c].debug THEN Append(log, name) ELSE log


\* the bounds on the snapshots made and on the events a context logs
MaxSnaps == 3
MaxEvents == 5

\* the request of the stubs of a context without tools
ContextRequest(c) == Request(Contexts[c].input_model, Contexts[c].output_model, <<>>)

\* its cache key and what a generator just reset renders for it
ContextKey == [c \in ContextIds |-> CacheKey(ContextRequest(c))]

ContextStubs == [c \in ContextIds |-> RenderFrom(FreshGen, ContextRequest(c))]

\* the context can log one more event
CanLog(c) == ~Contexts[c].debug \/ Len(events[c]) < MaxEvents

\* self.stub_generator.generate(...) of start: a lookup, or the rendering
\* and the store
StartStubs(c, cached) ==
    IF cached # <<>> THEN UNCHANGED <<cache, storedBy, stub_generator>>
    ELSE /\ stub_generator' = [stub_generator EXCEPT ![c] = ContextStubs[c].g]
         /\ cache' = CacheStore(cache, ContextKey[c], ContextStubs[c].text)
         /\ storedBy' = CacheStore(storedBy, ContextKey[c], ContextRequest(c))

\* start after _validate_inputs: the stubs, the runner, runner.start(...)
\* on validated_inputs.model_dump(), and the MontySnapshot of _run_start;
\* GrailValidationError when the inputs do not validate
StartValidated(c, validated) ==
    IF validated = <<>>
        THEN /\ events' = [events EXCEPT ![c] = Event(c, <<>>, "validate-inputs")]
             /\ UNCHANGED <<snaps, cache, storedBy, stub_generator>>
        ELSE /\ events' = [events EXCEPT ![c] =
                    Event(c, Event(c, Event(c, Event(c, <<>>, "validate-inputs"),
                        "build-runner"), "execute"), "finished")]
             /\ StartStubs(c, CacheGet(cache, ContextKey[c]))
             /\ snaps' = snaps \cup
                    {Snapshot(EngineStart(validated[1].items), c, "start", <<>>, "", <<>>)}

\* MontyContext.start
Start(c, inputs) ==
    /\ Cardinality(snaps) < MaxSnaps
    /\ UNCHANGED <<gens, calls, last, unionVars, threadVars, policyVars, runtimeVars>>
    /\ StartValidated(c, ModelValidate(Contexts[c].input_model, inputs))
    /\ UNCHANGED <<dumped, final_read, snap_call>>

\* what a call of dump or resume came to: the exception raised, whether
\* the method of the engine state was called, and what was returned
MethodOutcome(err, engine, value) == [err |-> err, engine |-> engine, value |-> value]

\* the call as snap_call keeps it: the method, whether the snapshot it was
\* called on was complete, the exception and whether the engine was called
SnapCall(op, snap, outcome) ==
    [op |-> op, complete |-> IsComplete(snap), err |-> outcome.err,
     engine |-> outcome.engine]

\* MontySnapshot.dump: RuntimeError on a completed snapshot, otherwise the
\* bytes of the engine
DumpResult(snap) ==
    IF IsComplete(snap) THEN MethodOutcome("RuntimeError", FALSE, <<>>)
    ELSE MethodOutcome("", TRUE, <<EngineDump(snap.state)>>)

DumpDone(snap, outcome) ==
    /\ snap_call' = <<SnapCall("dump", snap, outcome)>>
    /\ dumped' = dumped \cup {[snap |-> snap, data |-> data] : data \in Range(outcome.value)}

Dump(snap) ==
    /\ UNCHANGED <<vars, unionVars, threadVars, policyVars, runtimeVars>>
    /\ DumpDone(snap, DumpResult(snap))
    /\ UNCHANGED <<snaps, events, stub_generator, final_read>>

\* the exception of the engine's load is raised; otherwise the event and
\* the MontySnapshot with this context's validator
LoadSnapshotRest(c, serialized, loaded) ==
    IF loaded.err # "" THEN UNCHANGED <<snaps, events>>
    ELSE /\ events' = [events EXCEPT ![c] = Event(c, @, "restore-snapshot")]
         /\ snaps' = snaps \cup {Snapshot(loaded.value[1], c, "load", <<>>, serialized, <<>>)}

\* MontyContext.load_snapshot
LoadSnapshot(c, serialized) ==
    /\ Cardinality(snaps) < MaxSnaps
    /\ CanLog(c)
    /\ UNCHANGED <<vars, unionVars, threadVars, policyVars, runtimeVars>>
    /\ LoadSnapshotRest(c, serialized, EngineLoad(serialized))
    /\ UNCHANGED <<dumped, stub_generator, final_read, snap_call>>

\* the snapshot resume returns: the next state with the same validator
Resumed(snap, return_value) ==
    Snapshot(EngineResume(snap.state, return_value).value[1], snap.ctx, "resume",
             <<snap>>, "", <<return_value>>)

\* the rest of resume after the call of the engine
ResumeAfterEngine(snap, return_value, next_state) ==
    IF next_state.err # "" THEN MethodOutcome(next_state.err, TRUE, <<>>)
    ELSE MethodOutcome("", TRUE,
             <<Snapshot(next_state.value[1], snap.ctx, "resume", <<snap>>, "",
                        <<return_value>>)>>)

\* resume without the test of is_complete: a completed engine state has no
\* resume, and the AttributeError is raised through normalize_exception
ResumeResultOfEngine(snap, return_value) ==
    IF "function_name" \notin DOMAIN snap.state
        THEN MethodOutcome("AttributeError", TRUE, <<>>)
    ELSE ResumeAfterEngine(snap, return_value, EngineResume(snap.state, return_value))

\* MontySnapshot.resume(return_value=...): RuntimeError on a completed
\* snapshot, the normalized exception of the engine when it raises,
\* otherwise a new MontySnapshot of the next state
ResumeResult(snap, return_value) ==
    IF IsComplete(snap) THEN MethodOutcome("RuntimeError", FALSE, <<>>)
    ELSE ResumeAfterEngine(snap, return_value, EngineResume(snap.state, return_value))

ResumeDone(snap, outcome) ==
    /\ snap_call' = <<SnapCall("resume", snap, outcome)>>
    /\ snaps' = snaps \cup Range(outcome.value)

Resume(snap, return_value) ==
    /\ Cardinality(snaps) < MaxSnaps
    /\ UNCHANGED <<vars, unionVars, threadVars, policyVars, runtimeVars>>
    /\ ResumeDone(snap, ResumeResult(snap, return_value))
    /\ UNCHANGED <<dumped, events, stub_generator, final_read>>

\* reading MontySnapshot.output, the alias of final_value
ReadOutput(snap) ==
    /\ CanLog(snap.ctx)
    /\ UNCHANGED <<vars, unionVars, threadVars, policyVars, runtimeVars>>
    /\ IF IsComplete(snap)
           THEN events' = [events EXCEPT ![snap.ctx] = Event(snap.ctx, @, "validate-output")]
           ELSE UNCHANGED events
    /\ final_read' = <<[snap |-> snap, outcome |-> FinalValue(snap)]>>
    /\ UNCHANGED <<snaps, dumped, stub_generator, snap_call>>

NextSnapshots ==
    \/ \E c \in ContextIds, inputs \in StartInputs : Start(c, inputs)
    \/ \E snap \in snaps : Dump(snap)
    \/ \E c \in ContextIds, serialized \in {d.data : d \in dumped} \cup ForeignPayloads :
           LoadSnapshot(c, serialized)
    \/ \E snap \in snaps, return_value \in ResumeValues : Resume(snap, return_value)
    \/ \E snap \in snaps : ReadOutput(snap)

SpecSnapshots == Init /\ [][NextSnapshots]_allVars


\* the contexts were built with the same models
SameModels(c, d) ==
    /\ Contexts[c].input_model = Contexts[d].input_model
    /\ Contexts[c].output_model = Contexts[d].output_model

\* what resuming the paused snapshot with the value and reading the output
\* of the result gives
ResumeOutcome(snap, return_value) ==
    IF EngineResume(snap.state, return_value).err # ""
        THEN Raises(EngineResume(snap.state, return_value).err)
        ELSE FinalValue(Resumed(snap, return_value))

\* the restored snapshot shows the paused call of the original and resumes
\* to the same output
SameSnapshot(restored, original) ==
    /\ ~IsComplete(restored)
    /\ FunctionName(restored) = FunctionName(original)
    /\ Args(restored) = Args(original)
    /\ Kwargs(restored) = Kwargs(original)
    /\ \A return_value \in ResumeValues :
          ResumeOutcome(restored, return_value) = ResumeOutcome(original, return_value)

(***************************************************************************)
(* C17: a snapshot restored by load_snapshot from the dump of a paused     *)
(* snapshot that start returned, in the same context or in one built with  *)
(* the same models, is paused with the same function_name, args and        *)
(* kwargs, and resumes with any value to the same validated final output.  *)
(***************************************************************************)
C17_DumpLoadRoundTrip ==
    \A restored \in snaps, d \in dumped :
        ( /\ restored.origin = "load"
          /\ restored.via = d.data
          /\ d.snap.origin = "start"
          /\ SameModels(restored.ctx, d.snap.ctx) )
            => SameSnapshot(restored, d.snap)

\* the output of a snapshot was read that was resumed from a snapshot
\* restored in c2 from the dump of a snapshot started in c1
C17_RestoredInFreshContextRead ==
    /\ final_read # <<>>
    /\ final_read[1].outcome.err = ""
    /\ final_read[1].snap.origin = "resume"
    /\ final_read[1].snap.parent[1].origin = "load"
    /\ final_read[1].snap.parent[1].ctx = "c2"
    /\ \E d \in dumped :
          /\ d.data = final_read[1].snap.parent[1].via
          /\ d.snap.origin = "start"
          /\ d.snap.ctx = "c1"
          /\ d.snap.state.args = <<JInt(-14), JInt(3)>>

\* the output validates against the model: a dict that holds an int, or
\* the text of one, for every field
Conforms(model, output) ==
    /\ output.t = "dict"
    /\ \A name \in FieldNameSet(model) :
          /\ name \in DOMAIN output.items
          /\ \/ output.items[name].t = "int"
             \/ output.items[name].t = "str" /\ IsIntText(output.items[name].chars)

\* the outcome is an instance of the model with an int for every field
IsInstanceOf(outcome, model) ==
    /\ outcome.err = ""
    /\ outcome.value[1].t = "model"
    /\ outcome.value[1].model = model
    /\ \A name \in FieldNameSet(model) : outcome.value[1].items[name].t = "int"

\* the outcome of reading the output of a completed snapshot of a context
\* with an output model: the validated instance, or the error
ValidatedAgainst(outcome, model, output) ==
    IF Conforms(model, output) THEN IsInstanceOf(outcome, model)
    ELSE outcome = Raises("GrailOutputValidationError")

\* a completed snapshot carries the validator of the context that started
\* or restored the snapshot it was resumed from
HoldsValidatorOfOrigin(snap) ==
    snap.origin = "resume" /\ snap.ctx = snap.parent[1].ctx

(***************************************************************************)
(* C18: the output of a completed snapshot, whether it descends from start *)
(* or from load_snapshot, is validated against the output model of the     *)
(* context that started or restored it: reading it gives the validated     *)
(* instance, or raises GrailOutputValidationError when the output does not *)
(* validate; it never gives the unvalidated output.                        *)
(***************************************************************************)
C18_OutputValidationParity ==
    /\ \A snap \in snaps :
          (IsComplete(snap) /\ Contexts[snap.ctx].output_model # <<>>) =>
              /\ HoldsValidatorOfOrigin(snap)
              /\ ValidatedAgainst(FinalValue(snap), Contexts[snap.ctx].output_model[1],
                                  snap.state.output)
    /\ (final_read # <<>> /\ IsComplete(final_read[1].snap)
            /\ Contexts[final_read[1].snap.ctx].output_model # <<>>) =>
           ValidatedAgainst(final_read[1].outcome,
                            Contexts[final_read[1].snap.ctx].output_model[1],
                            final_read[1].snap.state.output)

\* the output of a restored snapshot that does not validate was read, and
\* the read raised
C18_InvalidRestoredOutputRead ==
    /\ final_read # <<>>
    /\ IsComplete(final_read[1].snap)
    /\ final_read[1].snap.parent[1].origin = "load"
    /\ Contexts[final_read[1].snap.ctx].output_model # <<>>
    /\ final_read[1].snap.state.output = JStr("invalid")
    /\ final_read[1].outcome.err = "GrailOutputValidationError"


(***************************************************************************)
(* Resource policies: a registry of named policies, each with a guard and  *)
(* the keys of the policies it inherits, and their resolution into one     *)
(* guard.                                                                  *)
(***************************************************************************)
\* a policy given by its key in the registry, and one given inline
NameSpec(key) == [key |-> key, inline |-> <<>>]

InlineSpec(policy) == [key |-> "", inline |-> <<policy>>]

\* the names the policy under a key may bear: its key; under c also a
NamesAt(key) == IF key = "c" THEN {"c", "a"} ELSE {key}

\* the keys a policy may inherit
InheritChoices ==
    {<<>>, <<"a">>, <<"b">>, <<"c">>, <<"a", "c">>, <<"b", "c">>, <<"c", "b">>,
     <<"missing">>}

\* the policies that may be registered under a key
Definable(key) ==
    {ResourcePolicy(name, GuardAt[key], inherits) :
         name \in NamesAt(key), inherits \in InheritChoices}

InlineChild == ResourcePolicy("x", ("max_memory" :> 8192), <<"b", "c">>)

InlineA == ResourcePolicy("a", GuardAt["a"], <<>>)

\* the lists of specs handed to resolve_policy
SpecLists ==
    { <<NameSpec("a")>>, <<NameSpec("b")>>, <<NameSpec("c")>>,
      <<NameSpec("a"), NameSpec("b")>>, <<NameSpec("b"), NameSpec("a")>>,
      <<NameSpec("c"), NameSpec("a")>>,
      <<InlineSpec(InlineChild)>>, <<InlineSpec(InlineChild), NameSpec("a")>>,
      <<InlineSpec(InlineA), NameSpec("b")>>, <<NameSpec("zz")>> }

\* a list of policies, or the PolicyValidationError raised and why
Expanded(list) == [err |-> "", why |-> "", list |-> list]

Invalid(why) == [err |-> "PolicyValidationError", why |-> why, list |-> <<>>]

\* _PolicyResolver._to_policy
ToPolicy(reg, spec) ==
    IF spec.inline # <<>>
        THEN IF spec.inline[1].name \in DOMAIN reg /\ reg[spec.inline[1].name] # spec.inline[1]
                 THEN Invalid("conflict") ELSE Expanded(spec.inline)
    ELSE IF spec.key \notin DOMAIN reg THEN Invalid("unknown")
    ELSE Expanded(<<reg[spec.key]>>)

\* the last item of the list that bears the name
LastNamed(list, name) ==
    list[CHOOSE i \in 1..Len(list) :
             /\ list[i].name = name
             /\ \A j \in (i + 1)..Len(list) : list[j].name # name]

\* deduped[item.name] = item for every item, then list(deduped.values()):
\* one item per name, at the place of the first, the last one bearing it
RECURSIVE DedupeFrom(_, _)
DedupeFrom(list, i) ==
    IF i > Len(list) THEN <<>>
    ELSE (IF \E j \in 1..(i - 1) : list[j].name = list[i].name THEN <<>>
          ELSE <<LastNamed(list, list[i].name)>>) \o DedupeFrom(list, i + 1)

DedupeByName(list) == DedupeFrom(list, 1)

RECURSIVE Expand(_, _, _)
RECURSIVE ExpandParents(_, _, _, _)

ExpandMore(first, more) ==
    IF more.err # "" THEN more ELSE Expanded(first.list \o more.list)

ExpandParentsRest(reg, name, rest, trail, first) ==
    IF first.err # "" THEN first
    ELSE ExpandMore(first, ExpandParents(reg, name, rest, trail))

\* the loop over policy.inherits of _expand
ExpandParents(reg, name, parents, trail) ==
    IF parents = <<>> THEN Expanded(<<>>)
    ELSE IF Head(parents) \notin DOMAIN reg THEN Invalid("unknown")
    ELSE ExpandParentsRest(reg, name, Tail(parents), trail,
                           Expand(reg, NameSpec(Head(parents)), Append(trail, name)))

ExpandAfterParents(policy, expanded) ==
    IF expanded.err # "" THEN expanded
    ELSE Expanded(DedupeByName(Append(expanded.list, policy)))

ExpandPolicy(reg, found, trail) ==
    IF found.err # "" THEN found
    ELSE IF found.list[1].name \in Range(trail) THEN Invalid("cycle")
    ELSE ExpandAfterParents(found.list[1],
             ExpandParents(reg, found.list[1].name, found.list[1].inherits, trail))

\* _PolicyResolver._expand
Expand(reg, spec, trail) == ExpandPolicy(reg, ToPolicy(reg, spec), trail)

\* min(candidates)
Least(S) == CHOOSE x \in S : \A y \in S : x <= y

\* compose_guards
ComposeGuards(guards) ==
    [field \in {f \in LimitFields : \E i \in 1..Len(guards) : f \in DOMAIN guards[i]} |->
        Least({guards[i][field] : i \in {j \in 1..Len(guards) : field \in DOMAIN guards[j]}})]

\* a guard, or the PolicyValidationError raised and why
Resolved(guard) == [err |-> "", why |-> "", guard |-> <<guard>>]

Unresolved(why) == [err |-> "PolicyValidationError", why |-> why, guard |-> <<>>]

ResolveExpanded(expanded) ==
    IF expanded.err # "" THEN Unresolved(expanded.why)
    ELSE Resolved(ComposeGuards([i \in 1..Len(expanded.list) |-> expanded.list[i].guard]))

\* _PolicyResolver.resolve
Resolve(reg, spec) == ResolveExpanded(Expand(reg, spec, <<>>))

\* the names of the inline specs that differ from the registered policy of
\* their name
ConflictingNames(reg, specs) ==
    {specs[i].inline[1].name : i \in
        {j \in 1..Len(specs) :
            /\ specs[j].inline # <<>>
            /\ specs[j].inline[1].name \in DOMAIN reg
            /\ reg[specs[j].inline[1].name] #
                   specs[CHOOSE k \in 1..Len(specs) :
                       /\ specs[k].inline # <<>>
                       /\ specs[k].inline[1].name = specs[j].inline[1].name
                       /\ \A l \in 1..(k - 1) :
                             specs[l].inline = <<>>
                             \/ specs[l].inline[1].name # specs[j].inline[1].name].inline[1]}}

\* [resolver.resolve(spec) for spec in specs]: the first error is raised
RECURSIVE ResolveEach(_, _)

ResolveEachRest(reg, rest, first) ==
    IF first.err # "" THEN first
    ELSE IF ResolveEach(reg, rest).err # "" THEN ResolveEach(reg, rest)
    ELSE [err |-> "", why |-> "", guard |-> first.guard \o ResolveEach(reg, rest).guard]

ResolveEach(reg, specs) ==
    IF specs = <<>> THEN [err |-> "", why |-> "", guard |-> <<>>]
    ELSE ResolveEachRest(reg, Tail(specs), Resolve(reg, Head(specs)))

ComposeResolved(each) ==
    IF each.err # "" THEN each ELSE Resolved(ComposeGuards(each.guard))

\* resolve_policy(specs, available_policies=reg) for a registry that is not
\* empty
ResolvePolicy(reg, specs) ==
    IF ConflictingNames(reg, specs) # {} THEN Unresolved("conflict")
    ELSE ComposeResolved(ResolveEach(reg, specs))

\* the caller puts a policy under a key of the registry it hands over
Define(key, policy) ==
    /\ registry[key] # policy
    /\ UNCHANGED <<vars, unionVars, threadVars, snapVars, runtimeVars>>
    /\ registry' = [registry EXCEPT ![key] = policy]
    /\ resolution' = <<>>

\* resolve_policy(specs, available_policies=registry)
ResolvePolicyCall(specs) ==
    /\ UNCHANGED <<vars, unionVars, threadVars, snapVars, runtimeVars>>
    /\ resolution' = <<[specs |-> specs, outcome |-> ResolvePolicy(registry, specs)]>>
    /\ UNCHANGED registry

NextPolicies ==
    \/ \E key \in PolicyKeys : \E policy \in Definable(key) : Define(key, policy)
    \/ \E specs \in SpecLists : ResolvePolicyCall(specs)

SpecPolicies == Init /\ [][NextPolicies]_allVars


\* the keys the policies under the keys of K inherit, added to K
WithParents(reg, K) ==
    K \cup {parent \in DOMAIN reg : \E key \in K \cap DOMAIN reg :
                parent \in Range(reg[key].inherits)}

\* the keys reached from K by following inherits
ReachableKeys(reg, K) == WithParents(reg, WithParents(reg, WithParents(reg, K)))

\* the keys a spec starts from: its key, or the keys it inherits
StartKeys(spec) ==
    IF spec.inline # <<>> THEN Range(spec.inline[1].inherits) ELSE {spec.key}

\* the guards that contribute: the guard of every listed policy and of
\* every policy it inherits, directly or not
Contributing(reg, specs) ==
    {specs[i].inline[1].guard : i \in {j \in 1..Len(specs) : specs[j].inline # <<>>}}
    \cup {reg[key].guard :
              key \in ReachableKeys(reg, UNION {StartKeys(specs[i]) : i \in 1..Len(specs)})
                          \cap DOMAIN reg}

\* the guard holds, for every field, the least value a contributing guard
\* sets, and leaves unset the fields that none sets
StrictestOf(guard, guards) ==
    /\ DOMAIN guard = {field \in LimitFields : \E g \in guards : field \in DOMAIN g}
    /\ \A field \in DOMAIN guard :
          /\ \E g \in guards : field \in DOMAIN g /\ g[field] = guard[field]
          /\ \A g \in guards : field \in DOMAIN g => guard[field] <= g[field]

\* the list in the opposite order
Reversed(list) == [i \in 1..Len(list) |-> list[Len(list) + 1 - i]]

(***************************************************************************)
(* C19: the guard resolve_policy returns holds, for each limit field, the  *)
(* least value among the guards of the listed policies and of all the      *)
(* policies they inherit, leaves unset a field none of them sets, and is   *)
(* the guard returned for the list in the opposite order.                  *)
(***************************************************************************)
C19_StrictestWins ==
    (resolution # <<>> /\ resolution[1].outcome.err = "") =>
        /\ StrictestOf(resolution[1].outcome.guard[1],
                       Contributing(registry, resolution[1].specs))
        /\ ResolvePolicy(registry, Reversed(resolution[1].specs)) = resolution[1].outcome

\* every key of the registry holds a policy of that name
KeyedByName == \A key \in DOMAIN registry : registry[key].name = key

\* the same for the registries keyed by the names of their policies
StrictestWinsKeyedByName == KeyedByName => C19_StrictestWins

\* every spec and every inherited key reached from the specs is registered,
\* and no inline spec differs from the registered policy of its name
WellFormed(reg, specs) ==
    /\ ConflictingNames(reg, specs) = {}
    /\ \A i \in 1..Len(specs) : specs[i].inline = <<>> => specs[i].key \in DOMAIN reg
    /\ \A i \in 1..Len(specs) : StartKeys(specs[i]) \subseteq DOMAIN reg
    /\ \A key \in ReachableKeys(reg, UNION {StartKeys(specs[i]) : i \in 1..Len(specs)}) :
          Range(reg[key].inherits) \subseteq DOMAIN reg

\* following inherits from the key leads back to the key
OnCycle(reg, key) == key \in ReachableKeys(reg, Range(reg[key].inherits) \cap DOMAIN reg)

\* following inherits from the specs reaches a policy that is on a cycle
CycleReachable(reg, specs) ==
    \E key \in ReachableKeys(reg, UNION {StartKeys(specs[i]) : i \in 1..Len(specs)}) :
        OnCycle(reg, key)

(***************************************************************************)
(* C20: for a registry in which every policy named is registered,          *)
(* resolve_policy raises PolicyValidationError for a cycle when following  *)
(* inherits from the requested policies leads back to a policy on the      *)
(* path, and returns a guard when it does not.                             *)
(***************************************************************************)
C20_CyclesDetected ==
    (resolution # <<>> /\ WellFormed(registry, resolution[1].specs)) =>
        IF CycleReachable(registry, resolution[1].specs)
            THEN /\ resolution[1].outcome.err = "PolicyValidationError"
                 /\ resolution[1].outcome.why = "cycle"
            ELSE resolution[1].outcome.err = ""

\* the same for the registries keyed by the names of their policies
CyclesDetectedKeyedByName == KeyedByName => C20_CyclesDetected



(***************************************************************************)
(* Effective limits: the limits an execution runs under, merged from the   *)
(* built-in defaults, the policy, the guard and the explicit limits.       *)
(* Durations are in milliseconds.                                          *)
(***************************************************************************)
\* _DEFAULT_LIMITS
DefaultLimits ==
    ("max_duration_secs" :> 1000) @@ ("max_memory" :> 16 * 1024 * 1024)
 @@ ("max_recursion_depth" :> 200)

\* NAMED_POLICIES
NamedPolicies ==
    ("strict" :> ResourcePolicy("strict",
                     ("max_duration_secs" :> 500) @@ ("max_memory" :> 8 * 1024 * 1024)
                  @@ ("max_recursion_depth" :> 120), <<>>))
 @@ ("permissive" :> ResourcePolicy("permissive",
                     ("max_duration_secs" :> 3000) @@ ("max_memory" :> 64 * 1024 * 1024)
                  @@ ("max_recursion_depth" :> 400), <<>>))
 @@ ("ai_agent" :> ResourcePolicy("ai_agent",
                     ("max_duration_secs" :> 1500) @@ ("max_memory" :> 32 * 1024 * 1024)
                  @@ ("max_recursion_depth" :> 250), <<"strict">>))

NoLimits == [f \in {} |-> 0]

\* the explicit limits a caller passes: <<>> is None
LimitsChoices ==
    {<<>>, <<NoLimits>>,
     <<("max_duration_secs" :> 2400)>>,
     <<("max_memory" :> 128 * 1024 * 1024) @@ ("max_recursion_depth" :> 10)>>,
     <<("max_allocations" :> 5) @@ ("gc_interval" :> 7)>>}

\* the guards a caller passes: <<>> is None; the fourth is below the least
\* memory a ResourceGuard accepts
GuardChoices ==
    {<<>>, <<NoLimits>>,
     <<("max_duration_secs" :> 1100) @@ ("max_memory" :> 20000000)>>,
     <<("max_memory" :> 512)>>,
     <<("max_recursion_depth" :> 300) @@ ("gc_interval" :> 3)>>}

\* the policies a caller passes: <<>> is None
PolicyChoices ==
    {<<>>,
     <<<<NameSpec("strict")>>>>,
     <<<<NameSpec("ai_agent")>>>>,
     <<<<NameSpec("permissive"), NameSpec("strict")>>>>,
     <<<<NameSpec("does-not-exist")>>>>,
     <<<<InlineSpec(ResourcePolicy("tight", ("max_allocations" :> 80), <<"permissive">>))>>>>}

\* the least value a ResourceGuard accepts in a field
FieldMinimum ==
    ("max_allocations" :> 1) @@ ("max_duration_secs" :> 1) @@ ("max_memory" :> 1024)
 @@ ("gc_interval" :> 1) @@ ("max_recursion_depth" :> 1)

\* ResourceGuard.model_validate(guard)
GuardValidate(guard) ==
    IF DOMAIN guard \subseteq LimitFields
       /\ \A f \in DOMAIN guard : guard[f] >= FieldMinimum[f]
        THEN Resolved(guard)
    ELSE [err |-> "ValidationError", why |-> "guard", guard |-> <<>>]

\* ResourceGuard.to_monty_limits: the fields that are set
ToMontyLimits(guard) == guard

\* merged.update(other)
Update(merged, other) == other @@ merged

\* merge_resource_limits
MergeResourceLimits(overrides) ==
    IF DOMAIN overrides # {} THEN Update(DefaultLimits, overrides) ELSE DefaultLimits

\* the three updates of merged with the guard applied last
MergedGuardLast(limits, base_guard, policy_guard) ==
    LET from_policy == IF policy_guard # <<>> THEN Update(NoLimits, ToMontyLimits(policy_guard[1]))
                       ELSE NoLimits
        from_limits == IF limits # <<>> THEN Update(from_policy, limits[1]) ELSE from_policy
    IN  IF base_guard # <<>> THEN Update(from_limits, ToMontyLimits(base_guard[1]))
        ELSE from_limits

\* the three updates of merged in resolve_effective_limits
Merged(limits, base_guard, policy_guard) ==
    LET from_policy == IF policy_guard # <<>> THEN Update(NoLimits, ToMontyLimits(policy_guard[1]))
                       ELSE NoLimits
        from_guard == IF base_guard # <<>> THEN Update(from_policy, ToMontyLimits(base_guard[1]))
                      ELSE from_policy
    IN  IF limits # <<>> THEN Update(from_guard, limits[1]) ELSE from_guard

\* the limits returned, or the error raised
Limited(limits) == [err |-> "", why |-> "", limits |-> <<limits>>]

Unlimited(raised) == [err |-> raised.err, why |-> raised.why, limits |-> <<>>]

\* None in the place of a guard
NoGuard == [err |-> "", why |-> "", guard |-> <<>>]

\* policy_guard = resolve_policy(policy)
PolicyGuard(policy) ==
    IF policy = <<>> THEN NoGuard
    ELSE ResolvePolicy(NamedPolicies, policy[1])

\* base_guard = ResourceGuard.model_validate(guard) if guard is not None else None
BaseGuard(guard) ==
    IF guard = <<>> THEN NoGuard ELSE GuardValidate(guard[1])

ResolveAfterGuards(limits, base_guard, policy_guard) ==
    IF policy_guard.err # "" THEN Unlimited(policy_guard)
    ELSE IF base_guard.err # "" THEN Unlimited(base_guard)
    ELSE Limited(MergeResourceLimits(
             Merged(limits, base_guard.guard, policy_guard.guard)))

\* resolve_effective_limits(limits=limits, guard=guard, policy=policy)
ResolveEffectiveLimits(limits, guard, policy) ==
    ResolveAfterGuards(limits, BaseGuard(guard), PolicyGuard(policy))

\* a caller resolves the limits of an execution
ResolveEffectiveLimitsCall(limits, guard, policy) ==
    /\ UNCHANGED <<vars, unionVars, threadVars, snapVars, policyVars, fsVars, toolVars, execVars>>
    /\ effective' = <<[limits |-> limits, guard |-> guard, policy |-> policy,
                       outcome |-> ResolveEffectiveLimits(limits, guard, policy)]>>

NextLimits ==
    \E limits \in LimitsChoices, guard \in GuardChoices, policy \in PolicyChoices :
        ResolveEffectiveLimitsCall(limits, guard, policy)

SpecLimits == Init /\ [][NextLimits]_allVars

\* the call returned limits
LimitsReturned == effective # <<>> /\ effective[1].outcome.err = ""

\* the guard the policy of the call resolves to: the fields it sets
PolicyOf(call) ==
    IF call.policy = <<>> THEN NoLimits
    ELSE ResolvePolicy(NamedPolicies, call.policy[1]).guard[1]

GuardOf(call) == IF call.guard = <<>> THEN NoLimits ELSE call.guard[1]

LimitsOf(call) == IF call.limits = <<>> THEN NoLimits ELSE call.limits[1]

\* the value precedence gives a field: <<>> when no source sets it
ByPrecedence(call, field) ==
    IF field \in DOMAIN LimitsOf(call) THEN <<LimitsOf(call)[field]>>
    ELSE IF field \in DOMAIN GuardOf(call) THEN <<GuardOf(call)[field]>>
    ELSE IF field \in DOMAIN PolicyOf(call) THEN <<PolicyOf(call)[field]>>
    ELSE IF field \in DOMAIN DefaultLimits THEN <<DefaultLimits[field]>>
    ELSE <<>>

\* C21: the limits resolve_effective_limits returns hold, for each limit
\* field, the value of the explicit limits if set there, else that of the
\* guard, else that of the resolved policy, else the built-in default, and
\* do not hold the field when no source sets it
C21_PrecedenceByField ==
    LimitsReturned =>
        \A field \in LimitFields :
            ByPrecedence(effective[1], field) =
                IF field \in DOMAIN effective[1].outcome.limits[1]
                    THEN <<effective[1].outcome.limits[1][field]>> ELSE <<>>

\* explicit limits looser than the guard, and a guard looser than the
\* policy, were given and the looser values were returned; a field no source
\* sets is absent
C21_LooserSourceOverrode ==
    /\ LimitsReturned
    /\ effective[1].limits = <<("max_duration_secs" :> 2400)>>
    /\ effective[1].guard = <<("max_duration_secs" :> 1100) @@ ("max_memory" :> 20000000)>>
    /\ effective[1].policy = <<<<NameSpec("strict")>>>>
    /\ effective[1].outcome.limits[1] =
           ("max_duration_secs" :> 2400) @@ ("max_memory" :> 20000000)
        @@ ("max_recursion_depth" :> 120)



(***************************************************************************)
(* The guarded filesystem: GrailFilesystem confines every path to its root *)
(* and checks the permission in force before it forwards an operation to   *)
(* a hook or to the underlying OS.                                         *)
(***************************************************************************)
MaxOsWrites == 1

\* the paths the sandboxed code names
FsPaths ==
    {AbsPath(<<"sandbox", "pub", "a.txt">>), AbsPath(<<"sandbox", "work", "b.txt">>),
     AbsPath(<<"sandbox", "work", "ro.txt">>), AbsPath(<<"sandbox", "secret", "key">>),
     AbsPath(<<"sandbox", "link">>), AbsPath(<<"sandbox", "work", "out">>),
     AbsPath(<<"sandbox", "work", "new">>), AbsPath(<<"sandbox">>),
     AbsPath(<<"etc", "passwd">>), RelPath(<<"..", "secret">>), RelPath(<<"notes.txt">>)}

\* the targets of a rename
FsTargets ==
    {AbsPath(<<"sandbox", "work", "new">>), AbsPath(<<"sandbox", "secret", "key">>),
     AbsPath(<<"sandbox", "work", "out">>)}

\* os.path_absolute: a relative path is taken from the working directory,
\* its ".." parts kept
PathAbsolute(path) == IF path.abs THEN path.parts ELSE WorkingDir \o path.parts

\* os.path_resolve: where the path leads once its links are followed
PathResolve(p) == IF p \in DOMAIN ResolveMap THEN ResolveMap[p] ELSE p

\* PurePosixPath.relative_to(base) does not raise
IsRelativeTo(p, base) == StartsWith(p, base)

\* PurePosixPath.parent; the parent of "/" is "/"
Parent(p) == IF p = <<>> THEN p ELSE SubSeq(p, 1, Len(p) - 1)

\* what an operation comes to: a value, or the error raised and why
FsValue(value) == [err |-> "", why |-> "", value |-> value]

FsRaise(err, why) == [err |-> err, why |-> why, value |-> ""]

Escaped(p) == [err |-> "PermissionError", why |-> "escape", path |-> p]

Normalized(p) == [err |-> "", why |-> "", path |-> p]

\* _normalize without the check of the resolved path
NormalizeUnresolved(fs, normalized, resolved) == Normalized(normalized)

\* _normalize: resolved.relative_to(self._root), return normalized
NormalizeResolved(fs, normalized, resolved) ==
    IF ~IsRelativeTo(resolved, fs.root) THEN Escaped(resolved)
    ELSE Normalized(normalized)

\* _normalize: the checks of the absolute path
NormalizeAbsolute(fs, normalized) ==
    IF ".." \in Range(normalized) THEN Escaped(normalized)
    ELSE IF ~IsRelativeTo(normalized, fs.root) THEN Escaped(normalized)
    ELSE NormalizeResolved(fs, normalized, PathResolve(normalized))

\* GrailFilesystem._normalize
Normalize(fs, path) == NormalizeAbsolute(fs, PathAbsolute(path))

\* _permission_for with the entry of the path itself only
PermissionForSelf(fs, current) ==
    IF current \in DOMAIN fs.permissions THEN fs.permissions[current]
    ELSE fs.default_permission

\* GrailFilesystem._permission_for
RECURSIVE PermissionFor(_, _)
PermissionFor(fs, current) ==
    IF current \in DOMAIN fs.permissions THEN fs.permissions[current]
    ELSE IF current = Parent(current) THEN fs.default_permission
    ELSE PermissionFor(fs, Parent(current))

\* _assert_read_allowed does not raise
ReadAllowed(fs, p) == PermissionFor(fs, p) \in {"read", "write"}

\* _assert_write_allowed does not raise
WriteAllowed(fs, p) == PermissionFor(fs, p) = "write"

\* _iter_prefix_hooks: the hook under the longest prefix of the path, or None
IterPrefixHooks(mapping, p) ==
    IF \A candidate \in mapping : ~IsRelativeTo(p, candidate) THEN <<>>
    ELSE <<CHOOSE candidate \in mapping :
               /\ IsRelativeTo(p, candidate)
               /\ \A other \in mapping :
                      IsRelativeTo(p, other) => Len(other) <= Len(candidate)>>

\* the operations of the OS that follow a link to the location it names
FollowingOps ==
    {"path_exists", "path_is_file", "path_is_dir", "path_resolve", "path_read_text",
     "path_read_bytes", "path_write_text", "path_write_bytes", "path_iterdir", "path_stat"}

\* the location an operation of the OS acts on when handed the path
Location(op, p) == IF op \in FollowingOps THEN PathResolve(p) ELSE p

\* a call forwarded to the OS, and one forwarded to a hook
OsCall(op, p) == [to |-> "os", op |-> op, path |-> p, at |-> Location(op, p)]

HookCall(op, p, hook) == [to |-> "hook", op |-> op, path |-> p, at |-> hook]

\* the OS: files without a location
Without(files, loc) == [l \in (DOMAIN files) \ {loc} |-> files[l]]

\* what an operation did: its outcome, the calls it forwarded, the files
\* of the OS after it
Did(outcome, forwarded, files) ==
    [outcome |-> outcome, calls |-> forwarded, files |-> files]

Refused(normal) == Did(FsRaise(normal.err, normal.why), <<>>, os_files)

Denied(kind) == Did(FsRaise("PermissionError", kind), <<>>, os_files)

\* self._os.<op>(normalized) for the operations that modify nothing
OsQuery(op, p) ==
    Did(CASE op = "path_exists" -> FsValue(IF Location(op, p) \in DOMAIN os_files THEN "True" ELSE "False")
          [] op = "path_is_file" ->
                 FsValue(IF Location(op, p) \in DOMAIN os_files /\ os_files[Location(op, p)] # "dir"
                             THEN "True" ELSE "False")
          [] op = "path_is_dir" ->
                 FsValue(IF Location(op, p) \in DOMAIN os_files /\ os_files[Location(op, p)] = "dir"
                             THEN "True" ELSE "False")
          [] op = "path_is_symlink" -> FsValue(IF p \in DOMAIN ResolveMap THEN "True" ELSE "False")
          [] op = "path_resolve" -> FsValue(Join("/", PathResolve(p)))
          [] op = "path_iterdir" ->
                 FsValue(Join(",", SortStrSet({Join("/", l) : l \in
                     {f \in DOMAIN os_files : Len(f) > Len(p) /\ IsRelativeTo(f, Location(op, p))}})))
          [] OTHER ->
                 IF Location(op, p) \in DOMAIN os_files THEN FsValue(os_files[Location(op, p)])
                 ELSE FsRaise("FileNotFoundError", "os"),
        <<OsCall(op, p)>>, os_files)

\* self._os.<op>(normalized, ...) for the operations that modify a location
OsMutate(op, p, data) ==
    CASE op \in {"path_write_text", "path_write_bytes"} ->
             Did(FsValue("written"), <<OsCall(op, p)>>, (Location(op, p) :> data) @@ os_files)
      [] op = "path_mkdir" ->
             Did(FsValue("None"), <<OsCall(op, p)>>,
                 IF p \in DOMAIN os_files THEN os_files ELSE (p :> "dir") @@ os_files)
      [] OTHER ->
             IF p \in DOMAIN os_files
                 THEN Did(FsValue("None"), <<OsCall(op, p)>>, Without(os_files, p))
             ELSE Did(FsRaise("FileNotFoundError", "os"), <<OsCall(op, p)>>, os_files)

\* self._os.path_rename(normalized_path, normalized_target)
OsRename(p, target) ==
    IF p \in DOMAIN os_files
        THEN Did(FsValue("None"), <<OsCall("path_rename", p)>>,
                 (target :> os_files[p]) @@ Without(os_files, p))
    ELSE Did(FsRaise("FileNotFoundError", "os"), <<OsCall("path_rename", p)>>, os_files)

\* path_exists, path_is_file, path_is_dir, path_is_symlink, path_resolve
\* after _normalize
Queried(op, normal) ==
    IF normal.err # "" THEN Refused(normal) ELSE OsQuery(op, normal.path)

\* the read hook, or the OS
ReadThrough(op, p, hook) ==
    IF hook # <<>> THEN Did(FsValue("hooked"), <<HookCall(op, p, hook[1])>>, os_files)
    ELSE OsQuery(op, p)

\* path_read_text, path_read_bytes after _normalize
ReadHooked(fs, op, normal) ==
    IF normal.err # "" THEN Refused(normal)
    ELSE IF ~ReadAllowed(fs, normal.path) THEN Denied("read")
    ELSE ReadThrough(op, normal.path, IterPrefixHooks(fs.read_hooks, normal.path))

\* path_iterdir, path_stat after _normalize
ReadPlain(fs, op, normal) ==
    IF normal.err # "" THEN Refused(normal)
    ELSE IF ~ReadAllowed(fs, normal.path) THEN Denied("read")
    ELSE OsQuery(op, normal.path)

\* the write hook, or the OS
WriteThrough(op, p, data, hook) ==
    IF hook # <<>> THEN Did(FsValue("written"), <<HookCall(op, p, hook[1])>>, os_files)
    ELSE OsMutate(op, p, data)

\* path_write_text, path_write_bytes after _normalize
WriteHooked(fs, op, normal, data) ==
    IF normal.err # "" THEN Refused(normal)
    ELSE IF ~WriteAllowed(fs, normal.path) THEN Denied("write")
    ELSE WriteThrough(op, normal.path, data, IterPrefixHooks(fs.write_hooks, normal.path))

\* path_mkdir, path_unlink, path_rmdir after _normalize
WritePlain(fs, op, normal) ==
    IF normal.err # "" THEN Refused(normal)
    ELSE IF ~WriteAllowed(fs, normal.path) THEN Denied("write")
    ELSE OsMutate(op, normal.path, "")

\* path_rename after the two calls of _normalize
Renamed(fs, normal, normal_target) ==
    IF normal.err # "" THEN Refused(normal)
    ELSE IF normal_target.err # "" THEN Refused(normal_target)
    ELSE IF ~WriteAllowed(fs, normal.path) THEN Denied("write")
    ELSE IF ~WriteAllowed(fs, normal_target.path) THEN Denied("write")
    ELSE OsRename(normal.path, normal_target.path)

\* the operation is over: what the sandboxed code and the OS are left with
FsStep(op, path, target, did) ==
    /\ did.files # os_files => os_writes < MaxOsWrites
    /\ UNCHANGED <<vars, unionVars, threadVars, snapVars, policyVars, limitVars, toolVars, execVars>>
    /\ fs_last' = <<[fs |-> mounted, op |-> op, path |-> path, target |-> target,
                     outcome |-> did.outcome, changed |-> did.files # os_files]>>
    /\ reached' = did.calls
    /\ os_files' = did.files
    /\ os_writes' = IF did.files # os_files THEN os_writes + 1 ELSE os_writes
    /\ UNCHANGED mounted

NoTarget == AbsPath(<<>>)

\* a GrailFilesystem is built over a freshly seeded OS
Mount(name) ==
    /\ name # mounted
    /\ UNCHANGED <<vars, unionVars, threadVars, snapVars, policyVars, limitVars, toolVars, execVars>>
    /\ mounted' = name
    /\ os_files' = SeedFiles
    /\ os_writes' = 0
    /\ reached' = <<>>
    /\ fs_last' = <<>>

PathExists(path) ==
    /\ FsStep("path_exists", path, NoTarget,
              Queried("path_exists", Normalize(Filesystems[mounted], path)))

PathIsFile(path) ==
    /\ FsStep("path_is_file", path, NoTarget,
              Queried("path_is_file", Normalize(Filesystems[mounted], path)))

PathIsDir(path) ==
    /\ FsStep("path_is_dir", path, NoTarget,
              Queried("path_is_dir", Normalize(Filesystems[mounted], path)))

PathIsSymlink(path) ==
    /\ FsStep("path_is_symlink", path, NoTarget,
              Queried("path_is_symlink", Normalize(Filesystems[mounted], path)))

PathReadText(path) ==
    /\ FsStep("path_read_text", path, NoTarget,
              ReadHooked(Filesystems[mounted], "path_read_text",
                         Normalize(Filesystems[mounted], path)))

PathReadBytes(path) ==
    /\ FsStep("path_read_bytes", path, NoTarget,
              ReadHooked(Filesystems[mounted], "path_read_bytes",
                         Normalize(Filesystems[mounted], path)))

PathWriteText(path, data) ==
    /\ FsStep("path_write_text", path, NoTarget,
              WriteHooked(Filesystems[mounted], "path_write_text",
                          Normalize(Filesystems[mounted], path), data))

PathWriteBytes(path, data) ==
    /\ FsStep("path_write_bytes", path, NoTarget,
              WriteHooked(Filesystems[mounted], "path_write_bytes",
                          Normalize(Filesystems[mounted], path), data))

PathMkdir(path) ==
    /\ FsStep("path_mkdir", path, NoTarget,
              WritePlain(Filesystems[mounted], "path_mkdir",
                         Normalize(Filesystems[mounted], path)))

PathUnlink(path) ==
    /\ FsStep("path_unlink", path, NoTarget,
              WritePlain(Filesystems[mounted], "path_unlink",
                         Normalize(Filesystems[mounted], path)))

PathRmdir(path) ==
    /\ FsStep("path_rmdir", path, NoTarget,
              WritePlain(Filesystems[mounted], "path_rmdir",
                         Normalize(Filesystems[mounted], path)))

PathIterdir(path) ==
    /\ FsStep("path_iterdir", path, NoTarget,
              ReadPlain(Filesystems[mounted], "path_iterdir",
                        Normalize(Filesystems[mounted], path)))

PathStat(path) ==
    /\ FsStep("path_stat", path, NoTarget,
              ReadPlain(Filesystems[mounted], "path_stat",
                        Normalize(Filesystems[mounted], path)))

PathRename(path, target) ==
    /\ FsStep("path_rename", path, target,
              Renamed(Filesystems[mounted], Normalize(Filesystems[mounted], path),
                      Normalize(Filesystems[mounted], target)))

\* path_resolve: self._os.path_resolve(self._normalize(path))
PathResolveCall(path) ==
    /\ FsStep("path_resolve", path, NoTarget,
              Queried("path_resolve", Normalize(Filesystems[mounted], path)))

\* path_absolute: self._os.path_absolute(path), no check
PathAbsoluteCall(path) ==
    /\ FsStep("path_absolute", path, NoTarget,
              Did(FsValue(Join("/", PathAbsolute(path))),
                  <<[to |-> "os", op |-> "path_absolute", path |-> path.parts,
                     at |-> PathAbsolute(path)]>>, os_files))

NextFilesystem ==
    \/ \E name \in DOMAIN Filesystems : Mount(name)
    \/ \E path \in FsPaths :
          \/ PathExists(path)
          \/ PathIsFile(path)
          \/ PathIsDir(path)
          \/ PathIsSymlink(path)
          \/ PathReadText(path)
          \/ PathReadBytes(path)
          \/ PathWriteText(path, "data")
          \/ PathWriteBytes(path, "data")
          \/ PathMkdir(path)
          \/ PathUnlink(path)
          \/ PathRmdir(path)
          \/ PathIterdir(path)
          \/ PathStat(path)
          \/ PathResolveCall(path)
          \/ PathAbsoluteCall(path)
    \/ \E path \in FsPaths, target \in FsTargets : PathRename(path, target)

SpecFilesystem == Init /\ [][NextFilesystem]_allVars



\* the path leaves the root: its absolute form has a ".." part, is not
\* under the root, or leads to a location that is not under the root
Escapes(fs, path) ==
    \/ \E i \in 1..Len(PathAbsolute(path)) : PathAbsolute(path)[i] = ".."
    \/ ~StartsWith(PathAbsolute(path), fs.root)
    \/ ~StartsWith(PathResolve(PathAbsolute(path)), fs.root)

\* the last operation named a path that leaves the root
LastEscapes ==
    \/ Escapes(Filesystems[fs_last[1].fs], fs_last[1].path)
    \/ fs_last[1].op = "path_rename"
       /\ Escapes(Filesystems[fs_last[1].fs], fs_last[1].target)

\* C22: an operation other than path_absolute on a path that leaves the
\* root raises PermissionError and forwards nothing to the OS or to a hook,
\* and modifies nothing; a path that stays inside the root is not refused
\* for leaving it
C22_RootConfinement ==
    (fs_last # <<>> /\ fs_last[1].op # "path_absolute") =>
        IF LastEscapes
            THEN /\ fs_last[1].outcome.err = "PermissionError"
                 /\ reached = <<>>
                 /\ ~fs_last[1].changed
        ELSE fs_last[1].outcome.why # "escape"

\* a write through a link inside a writable directory that leads outside
\* the root was refused and reached nothing
C22_LinkOutsideRootRefused ==
    /\ fs_last # <<>>
    /\ fs_last[1].op = "path_write_text"
    /\ fs_last[1].path = AbsPath(<<"sandbox", "work", "out">>)
    /\ fs_last[1].fs = "plain"
    /\ fs_last[1].outcome.err = "PermissionError"
    /\ fs_last[1].outcome.why = "escape"
    /\ reached = <<>>
    /\ os_files[<<"etc", "passwd">>] = "seed"

\* the permission in force at a location: that of the longest entry of the
\* permissions map that is the location or one of its ancestors, else the
\* default
InForce(fs, p) ==
    IF \A k \in DOMAIN fs.permissions : ~StartsWith(p, k) THEN fs.default_permission
    ELSE fs.permissions[CHOOSE k \in DOMAIN fs.permissions :
             /\ StartsWith(p, k)
             /\ \A other \in DOMAIN fs.permissions :
                    StartsWith(p, other) => Len(other) <= Len(k)]

ReadOps == {"path_read_text", "path_read_bytes", "path_iterdir", "path_stat"}

MutatingOps ==
    {"path_write_text", "path_write_bytes", "path_mkdir", "path_unlink", "path_rmdir",
     "path_rename"}

\* the permissions that let an operation through
Sufficient(op) == IF op \in ReadOps THEN {"read", "write"} ELSE {"write"}

\* the permission in force lets the last operation through, for a rename
\* at the source and at the target
LastPermitted ==
    /\ InForce(Filesystems[fs_last[1].fs], PathAbsolute(fs_last[1].path))
           \in Sufficient(fs_last[1].op)
    /\ fs_last[1].op = "path_rename" =>
           InForce(Filesystems[fs_last[1].fs], PathAbsolute(fs_last[1].target)) = "write"

\* C23: a read operation reaches a hook or the OS only if the permission in
\* force for its path is READ or WRITE, a mutating operation only if it is
\* WRITE; otherwise PermissionError is raised, nothing is forwarded and no
\* file is modified
C23_PermissionEnforced ==
    (fs_last # <<>> /\ fs_last[1].op \in ReadOps \cup MutatingOps) =>
        /\ reached # <<>> => LastPermitted
        /\ ~LastPermitted =>
               /\ fs_last[1].outcome.err = "PermissionError"
               /\ reached = <<>>
               /\ ~fs_last[1].changed

\* a rename from a writable file to a target under a DENY entry was
\* refused, and a file with a READ entry of its own inside a writable
\* directory exists untouched
C23_RenameIntoDeniedRefused ==
    /\ fs_last # <<>>
    /\ fs_last[1].op = "path_rename"
    /\ fs_last[1].fs = "plain"
    /\ fs_last[1].path = AbsPath(<<"sandbox", "work", "b.txt">>)
    /\ fs_last[1].target = AbsPath(<<"sandbox", "secret", "key">>)
    /\ fs_last[1].outcome = FsRaise("PermissionError", "write")
    /\ reached = <<>>
    /\ os_files = SeedFiles

\* C30: a read or a write that the OS carries out inside the root acts on a
\* location whose own permission in force lets it through
C30_PermissionOfLocationReached ==
    \A i \in 1..Len(reached) :
        (/\ reached[i].to = "os"
         /\ reached[i].op \in ReadOps \cup MutatingOps
         /\ StartsWith(reached[i].at, Filesystems[mounted].root)) =>
            InForce(Filesystems[mounted], reached[i].at) \in Sufficient(reached[i].op)



(***************************************************************************)
(* The tool registry: the tools of a context by name, and the tools it     *)
(* hands to the stub generator.                                            *)
(***************************************************************************)
MaxRegisterCalls == 3

\* the name= argument of register: <<>> is None
Aliases == {<<>>, <<"">>, <<"plus">>, <<"norm">>}

\* the lists of tools a registry is constructed with
ToolLists == {<<>>, <<"norm", "add1">>, <<"add1", "add3">>, <<"add3">>}

\* tool_name = name or tool.__name__
ToolName(tool, alias) ==
    IF alias # <<>> /\ alias[1] # "" THEN alias[1] ELSE Tools[tool].name

\* what a call of the registry came to
Registered(tools) == [err |-> "", tools |-> tools]

Duplicate(tools) == [err |-> "ValueError", tools |-> tools]

\* register that replaces the tool of a name already registered
RegisterOver(tools, tool, alias) ==
    Registered((ToolName(tool, alias) :> tool) @@ tools)

\* ToolRegistry.register
RegistryRegister(tools, tool, alias) ==
    IF ToolName(tool, alias) \in DOMAIN tools THEN Duplicate(tools)
    ELSE Registered((ToolName(tool, alias) :> tool) @@ tools)

\* ToolRegistry.names
Names(tools) == SortStrSet(DOMAIN tools)

\* ToolRegistry.as_mapping
AsMapping(tools) == [name \in Range(Names(tools)) |-> tools[name]]

\* for tool in tools: self.register(tool), until one raises
RECURSIVE RegisterEach(_, _)

RegisterEachRest(rest, first) ==
    IF first.err # "" THEN first ELSE RegisterEach(first.tools, rest)

RegisterEach(tools, list) ==
    IF list = <<>> THEN Registered(tools)
    ELSE RegisterEachRest(Tail(list), RegistryRegister(tools, Head(list), <<>>))

\* the register calls of a constructor: all of the list, or those up to the
\* one that raised
RECURSIVE CallsOf(_, _)
CallsOf(tools, list) ==
    IF list = <<>> THEN <<>>
    ELSE <<[tool |-> Head(list), alias |-> <<>>]>>
         \o (IF RegistryRegister(tools, Head(list), <<>>).err # "" THEN <<>>
             ELSE CallsOf(RegistryRegister(tools, Head(list), <<>>).tools, Tail(list)))

\* tools=[self.tools.as_mapping()[name] for name in self.tools.names]
ToolsForStubs(tools) ==
    [i \in 1..Len(Names(tools)) |-> AsMapping(tools)[Names(tools)[i]]]

\* ToolRegistry(tools): a registry whose constructor raises is never seen,
\* and the one in use stays
Construct(list) ==
    /\ UNCHANGED <<vars, unionVars, threadVars, snapVars, policyVars, limitVars, fsVars, execVars>>
    /\ register_last' = <<[op |-> "construct", err |-> RegisterEach(NoTools, list).err,
                           before |-> tool_registry, given |-> list]>>
    /\ IF RegisterEach(NoTools, list).err # ""
           THEN UNCHANGED <<tool_registry, register_calls>>
       ELSE /\ tool_registry' = RegisterEach(NoTools, list).tools
            /\ register_calls' = CallsOf(NoTools, list)

\* registry.register(tool, name=alias)
RegisterCall(tool, alias) ==
    /\ Len(register_calls) < MaxRegisterCalls
    /\ UNCHANGED <<vars, unionVars, threadVars, snapVars, policyVars, limitVars, fsVars, execVars>>
    /\ register_last' = <<[op |-> "register",
                           err |-> RegistryRegister(tool_registry, tool, alias).err,
                           before |-> tool_registry, given |-> <<tool>>]>>
    /\ tool_registry' = RegistryRegister(tool_registry, tool, alias).tools
    /\ register_calls' = Append(register_calls, [tool |-> tool, alias |-> alias])

NextTools ==
    \/ \E list \in ToolLists : Construct(list)
    \/ \E tool \in Callables, alias \in Aliases : RegisterCall(tool, alias)

SpecTools == Init /\ [][NextTools]_allVars

\* the name of the n-th register call
CallName(n) == ToolName(register_calls[n].tool, register_calls[n].alias)

\* the last register call raised exactly when its name was registered
\* before, the last constructor exactly when two tools of its list bear one
\* name, and a call that raised left the registry as it was
DuplicateRaises ==
    register_last # <<>> =>
        /\ register_last[1].op = "register" =>
               (register_last[1].err = "ValueError" <=>
                    CallName(Len(register_calls)) \in DOMAIN register_last[1].before)
        /\ register_last[1].op = "construct" =>
               (register_last[1].err = "ValueError" <=>
                    \E i, j \in 1..Len(register_last[1].given) :
                        /\ i < j
                        /\ Tools[register_last[1].given[i]].name
                               = Tools[register_last[1].given[j]].name)
        /\ register_last[1].err = "ValueError" =>
               tool_registry = register_last[1].before

\* every name maps to the tool of the first register call under it
FirstWins ==
    /\ DOMAIN tool_registry = {CallName(n) : n \in 1..Len(register_calls)}
    /\ \A n \in 1..Len(register_calls) :
           (\A m \in 1..(n - 1) : CallName(m) # CallName(n)) =>
               tool_registry[CallName(n)] = register_calls[n].tool

\* names is sorted and without repetition
NamesSortedDistinct ==
    \A i, j \in 1..Len(Names(tool_registry)) :
        i < j => StrLt(Names(tool_registry)[i], Names(tool_registry)[j])

\* the names of the tools handed to the stub generator, as it reads them
StubNames(tools) == [i \in 1..Len(ToolsForStubs(tools)) |-> Tools[ToolsForStubs(tools)[i]].name]

\* the registry without the last clause of C24: duplicates raise and change
\* nothing, the first tool of a name stays, names is sorted and distinct
RegistryUnique == DuplicateRaises /\ FirstWins /\ NamesSortedDistinct

\* C24: register raises ValueError for a name already registered and leaves
\* the registry unchanged, each name maps to the first tool registered under
\* it, and names is the sorted tuple of distinct names handed to the stub
\* generator
C24_NamesUniqueForStubs ==
    /\ DuplicateRaises
    /\ FirstWins
    /\ NamesSortedDistinct
    /\ StubNames(tool_registry) = Names(tool_registry)



\* the names an annotation refers to, the parameter list of a Callable
\* included: the names its rendering shows
RECURSIVE BodyNames(_)
BodyNames(a) ==
    IF a.tag = "named" /\ Types[a.ref].kind # "class" THEN {Types[a.ref].name}
    ELSE IF a.tag \in {"generic", "plist"}
        THEN UNION {BodyNames(a.args[n]) : n \in 1..Len(a.args)}
    ELSE {}

\* the names the body of the definition registered under name refers to:
\* the supertype of a new-type, the value of an alias, the field types of a
\* record
ReferencedByBody(g, name) ==
    IF Types[RegisteredId(g, name)].kind \in {"newtype", "alias"}
        THEN BodyNames(Types[RegisteredId(g, name)].body)
    ELSE UNION {BodyNames(FieldAnns(RegisteredId(g, name))[n]) :
                    n \in 1..Len(FieldAnns(RegisteredId(g, name)))}

\* every auxiliary definition stands after the auxiliary definitions that
\* the given references of its body name, and none stands twice
EmittedAfter(g, names, Referenced(_, _)) ==
    \A j \in 1..Len(names) :
        /\ \A i \in 1..Len(names) : i # j => names[i] # names[j]
        /\ \A dep \in Referenced(g, names[j]) \cap Range(names) :
               \E i \in 1..(j - 1) : names[i] = dep

\* C25: in the auxiliary block every definition appears after the
\* definitions of all auxiliary named types its own body references, and
\* every definition is emitted once
C25_DependenciesEmittedFirst ==
    (Returned /\ last[1].rendered) =>
        EmittedAfter(gens[last[1].inst], last[1].aux, ReferencedByBody)

\* the same for the references outside the parameter lists of callables
DependenciesOutsideCallablesFirst ==
    (Returned /\ last[1].rendered) =>
        EmittedAfter(gens[last[1].inst], last[1].aux, DirectDependencies)



\* the two top-level schemas of a request
TopLevel(req) ==
    {req.input} \cup (IF req.output # <<>> THEN {req.output[1]} ELSE {})

\* the objects whose blocks a rendered text holds: the auxiliary ones and
\* the top-level schemas
BlocksOf(call) ==
    {RegisteredId(gens[call.inst], call.aux[n]) : n \in 1..Len(call.aux)}
        \cup TopLevel(call.req)

\* a field of a block of the text, or a parameter or the return of a tool
\* of the request, is annotated with the schema
ReferencedIn(call, top) ==
    \/ \E id \in BlocksOf(call) : \E n \in 1..Len(Types[id].fields) :
           Types[id].fields[n].ann = Named(top)
    \/ \E t \in Range(call.req.tools) :
           \/ Tools[t].ret = Named(top)
           \/ \E n \in 1..Len(Tools[t].params) : Tools[t].params[n].ann = Named(top)

\* every such reference is rendered as the bare name of the schema
BareReferences(call, top) ==
    /\ \A id \in BlocksOf(call) : \A n \in 1..Len(Types[id].fields) :
           Types[id].fields[n].ann = Named(top) =>
               Contains(call.text, "\n    " \o Types[id].fields[n].name \o ": "
                                       \o Types[top].name \o "\n")
    /\ \A t \in Range(call.req.tools) :
           /\ Tools[t].ret = Named(top) =>
                  Contains(call.text, ") -> " \o Types[top].name \o ": ...\n")
           /\ \A n \in 1..Len(Tools[t].params) :
                  Tools[t].params[n].ann = Named(top) =>
                      Contains(call.text, Tools[t].params[n].name \o ": " \o Types[top].name)

\* the number of roles, input and output, a schema has in a request
Roles(req, top) ==
    (IF req.input = top THEN 1 ELSE 0) + (IF req.output = <<top>> THEN 1 ELSE 0)

\* C26: a top-level schema that a field or a tool signature refers to is
\* rendered there by its bare name, has no definition in the auxiliary
\* block, and its block stands exactly once in the text
C26_TopLevelNeverAuxiliary ==
    (Returned /\ last[1].rendered) =>
        \A top \in TopLevel(last[1].req) :
            ReferencedIn(last[1], top) =>
                /\ BareReferences(last[1], top)
                /\ Types[top].name \notin Range(last[1].aux)
                /\ Occurrences(last[1].text, "\n" \o DefinitionHead(top)) = 1

\* the same with one block for each role of the schema
TopLevelOncePerRole ==
    (Returned /\ last[1].rendered) =>
        \A top \in TopLevel(last[1].req) :
            ReferencedIn(last[1], top) =>
                /\ BareReferences(last[1], top)
                /\ Types[top].name \notin Range(last[1].aux)
                /\ Occurrences(last[1].text, "\n" \o DefinitionHead(top))
                       = Roles(last[1].req, top)



\* the names the registries of a discovery state hold
RegistryNames(g) ==
    (DOMAIN g.new_types) \cup (DOMAIN g.type_aliases)
        \cup (DOMAIN g.base_models) \cup (DOMAIN g.dataclasses)

\* C27: a call that runs the renderer returns what a generator just
\* constructed returns for the same request, and leaves the instance in
\* the discovery state of that request alone: no auxiliary definition, no
\* header import and no registry entry comes from what the instance held
\* when it was called
C27_DiscoveryPerRequest ==
    (last # <<>> /\ last[1].rendered) =>
        /\ last[1].err = FreshRender[last[1].req].err
        /\ gens[last[1].inst] = FreshRender[last[1].req].g
        /\ last[1].err = "" =>
               /\ last[1].text = FreshRender[last[1].req].text
               /\ last[1].imports = FreshRender[last[1].req].imports
               /\ last[1].aux = FreshRender[last[1].req].aux

\* an instance that held auxiliary names and both flags from an earlier
\* request rendered a request whose text has none of them
C27_EarlierRequestLeftNothing ==
    /\ Returned /\ last[1].rendered
    /\ last[1].before.uses_any /\ last[1].before.uses_callable
    /\ RegistryNames(last[1].before) # {}
    /\ last[1].aux = <<>>
    /\ RegistryNames(gens[last[1].inst]) = {}
    /\ "Any" \notin Range(last[1].imports)
    /\ "Callable" \notin Range(last[1].imports)



\* C28: a snapshot is complete exactly when its state has an output and no
\* function_name; dump and resume of a complete snapshot raise RuntimeError
\* and do not call the engine; reading the output of a paused snapshot
\* raises RuntimeError; the snapshot resume was called on stays as it was,
\* and no snapshot comes from the resume of a complete one
C28_CompletedIsTerminal ==
    /\ \A snap \in snaps :
           IsComplete(snap) <=>
               ("output" \in DOMAIN snap.state /\ FunctionName(snap) = <<>>)
    /\ (snap_call # <<>> /\ snap_call[1].complete) =>
           (snap_call[1].err = "RuntimeError" /\ ~snap_call[1].engine)
    /\ (snap_call # <<>> /\ ~snap_call[1].complete) => snap_call[1].engine
    /\ (final_read # <<>> /\ ~IsComplete(final_read[1].snap)) =>
           final_read[1].outcome = Raises("RuntimeError")
    /\ \A snap \in snaps :
           snap.origin = "resume" =>
               (snap.parent[1] \in snaps /\ ~IsComplete(snap.parent[1]))

\* resume was called on a complete snapshot that a resume had made, and
\* the output of a paused snapshot was read
C28_CompletedResumedAgain ==
    /\ snap_call # <<>> /\ snap_call[1].op = "resume" /\ snap_call[1].complete
    /\ snap_call[1].err = "RuntimeError"
    /\ \E snap \in snaps : IsComplete(snap) /\ snap.origin = "resume"
    /\ final_read # <<>> /\ ~IsComplete(final_read[1].snap)
    /\ final_read[1].outcome.err = "RuntimeError"



(***************************************************************************)
(* MontyContext.execute_async.  The call runs to its await of              *)
(* run_monty_async in one step and from the result of the engine to its    *)
(* return in another; a context has one call in flight, as under execute,  *)
(* which runs each call to its end.  The engine is the environment: the    *)
(* constructor of the runner succeeds or raises, and the run returns an    *)
(* output or raises.                                                       *)
(***************************************************************************)
MaxExecutes == 3

\* what run_monty_async comes to: an output that validates, one that does
\* not, or an exception of the engine
EngineResults ==
    { Returns(JDict("total" :> JInt(3))), Returns(JStr("invalid")),
      Raises("MontyRuntimeError"), Raises("MontyError") }

\* MontyContext._normalize_monty_exception, for messages without the words
\* limit and recursion
NormalizeMontyException(err) ==
    IF err = "ValidationError" THEN "GrailOutputValidationError"
    ELSE IF err \in {"MontyRuntimeError", "MontyError"} THEN "GrailExecutionError"
    ELSE err

\* the events _event appends for the names in turn
EventsOf(c, log, names) ==
    IF Contexts[c].debug THEN log \o names ELSE log

\* the call as returned keeps it
Finished(c, err, value, log) ==
    [ctx |-> c, err |-> err, value |-> value, events |-> log]

\* the call raised GrailValidationError from _validate_inputs, before the
\* try statement
ExecuteInvalid(c) ==
    /\ events' = [events EXCEPT ![c] = EventsOf(c, <<>>, <<"validate-inputs">>)]
    /\ returned' = <<Finished(c, "GrailValidationError", <<>>,
                              EventsOf(c, <<>>, <<"validate-inputs">>))>>
    /\ UNCHANGED <<running, cache, storedBy, stub_generator>>

\* the constructor of the runner raised: the except and the finally clause
ExecuteNotBuilt(c) ==
    /\ events' = [events EXCEPT ![c] =
           EventsOf(c, <<>>, <<"validate-inputs", "build-runner", "finished">>)]
    /\ returned' = <<Finished(c, NormalizeMontyException("MontyError"), <<>>,
           EventsOf(c, <<>>, <<"validate-inputs", "build-runner", "finished">>))>>
    /\ UNCHANGED running

\* the runner is built and the call awaits run_monty_async
ExecuteAwait(c, validated) ==
    /\ events' = [events EXCEPT ![c] =
           EventsOf(c, <<>>, <<"validate-inputs", "build-runner", "execute">>)]
    /\ running' = [running EXCEPT ![c] = <<validated>>]
    /\ UNCHANGED returned

\* execute_async after _validate_inputs: the stubs, then the try statement
ExecuteValidated(c, validated, built) ==
    IF validated = <<>> THEN ExecuteInvalid(c)
    ELSE /\ StartStubs(c, CacheGet(cache, ContextKey[c]))
         /\ IF built THEN ExecuteAwait(c, validated[1]) ELSE ExecuteNotBuilt(c)

\* execute_async up to the await of run_monty_async
ExecuteAsync(c, inputs, built) ==
    /\ executes < MaxExecutes
    /\ running[c] = <<>>
    /\ executes' = executes + 1
    /\ UNCHANGED <<gens, calls, last, unionVars, threadVars, policyVars,
                   limitVars, fsVars, toolVars>>
    /\ ExecuteValidated(c, ModelValidate(Contexts[c].input_model, inputs), built)
    /\ UNCHANGED <<snaps, dumped, final_read, snap_call>>

\* _validated_output_with_event on the result, then the finally clause
ExecuteOutput(c, outcome) ==
    /\ events' = [events EXCEPT ![c] = EventsOf(c, @, <<"validate-output", "finished">>)]
    /\ returned' = <<Finished(c, outcome.err, outcome.value,
                              EventsOf(c, events[c], <<"validate-output", "finished">>))>>

\* the except clause without a finally clause
ExecuteRaisedNoFinally(c, err) ==
    /\ UNCHANGED events
    /\ returned' = <<Finished(c, NormalizeMontyException(err), <<>>, events[c])>>

\* the except clause, then the finally clause
ExecuteRaised(c, err) ==
    /\ events' = [events EXCEPT ![c] = EventsOf(c, @, <<"finished">>)]
    /\ returned' = <<Finished(c, NormalizeMontyException(err), <<>>,
                              EventsOf(c, events[c], <<"finished">>))>>

\* execute_async from the result of run_monty_async to its return
ExecuteResume(c, result) ==
    /\ running[c] # <<>>
    /\ running' = [running EXCEPT ![c] = <<>>]
    /\ UNCHANGED <<vars, unionVars, threadVars, policyVars, limitVars, fsVars, toolVars>>
    /\ IF result.err # "" THEN ExecuteRaised(c, result.err)
       ELSE ExecuteOutput(c, ValidatedOutput(c, result.value[1]))
    /\ UNCHANGED <<snaps, dumped, stub_generator, final_read, snap_call, executes>>

NextExecute ==
    \/ \E c \in ContextIds, inputs \in StartInputs, built \in BOOLEAN :
           ExecuteAsync(c, inputs, built)
    \/ \E c \in ContextIds, result \in EngineResults : ExecuteResume(c, result)

SpecExecute == Init /\ [][NextExecute]_allVars

\* every call that awaits the engine gets its result
SpecExecuteFair ==
    SpecExecute /\ \A c \in ContextIds :
                       WF_allVars(\E result \in EngineResults : ExecuteResume(c, result))

\* the positions of the event in the list
At(log, name) == {n \in 1..Len(log) : log[n] = name}

\* C29: the event list of a context without debug is empty; the list of a
\* context with debug starts with validate-inputs, which occurs once; when
\* no call is in flight and the list holds execute, finished is its last
\* event; validate-output stands after execute, and before finished once
\* the call has returned
C29_EventOrder ==
    \A c \in ContextIds :
        /\ ~Contexts[c].debug => events[c] = <<>>
        /\ (Contexts[c].debug /\ events[c] # <<>>) =>
               At(events[c], "validate-inputs") = {1}
        /\ (running[c] = <<>> /\ At(events[c], "execute") # {}) =>
               /\ events[c][Len(events[c])] = "finished"
               /\ \A e \in At(events[c], "execute"), f \in At(events[c], "finished") : e < f
        /\ \A v \in At(events[c], "validate-output") :
               /\ \E e \in At(events[c], "execute") : e < v
               /\ running[c] = <<>> => \E f \in At(events[c], "finished") : v < f
        /\ running[c] # <<>> => At(events[c], "finished") = {}

\* a call on the context with debug recorded execute and returned after
\* the engine raised, after another call on it had returned an output
C29_EngineFailureFinished ==
    /\ returned # <<>> /\ returned[1].ctx = "c1"
    /\ returned[1].err = "GrailExecutionError"
    /\ events["c1"] = <<"validate-inputs", "build-runner", "execute", "finished">>
    /\ returned[1].events = events["c1"]
    /\ executes > 1
    /\ events["c2"] = <<>> /\ cache # EmptyCache

\* the call that awaits the engine returns, and finished is then the last
\* event of a context with debug
ExecuteLeadsToFinished ==
    \A c \in ContextIds :
        (running[c] # <<>>) ~>
            (running[c] = <<>> /\
                (Contexts[c].debug => At(events[c], "finished") = {Len(events[c])}))

=============================================================================
